---- MODULE Spec2Model ----
(***************************************************************************)
(* Model of the action callbacks of companion-module-meyersound-galaxy:    *)
(* the output actions (actions/outputs.js), the input actions              *)
(* (actions/inputs.js) and the matrix actions (actions/matrix.js).         *)
(*                                                                         *)
(* The module instance `self` is the state.  Each action callback is one   *)
(* atomic step (JavaScript runs a callback to completion).  Helpers of the *)
(* module instance that the callbacks call but that live outside the       *)
(* action files (_setMute, _toggleMute, _setOutputGain, safeGetChannels,   *)
(* ...) are modelled from the specification's Command Dispatcher and       *)
(* Channel Set Validator sections.                                         *)
(***************************************************************************)
EXTENDS Integers, Sequences, FiniteSets, TLC

VARIABLES
    inMute,             \* self.inMute: input channel -> muted
    outMute,            \* self.outMute: output channel -> muted
    inputSoloState,     \* self.inputSoloState: <<>> (null) or <<[soloChannels, prevMute]>>
    outputSoloState,    \* self.outputSoloState
    preSolo,            \* history: domain -> the mute map as it was while last Unsoloed
    now,                \* Date.now(), in ms
    rotaryAccel,        \* self._rotaryAccel: accelKey -> <<>> or <<[time, count]>>
    eqKnobControlOutput,        \* self._eqKnobControlOutput: [selectedOutputs, selectedBand]
    eqKnobControl,              \* self._eqKnobControl: [selectedInputs, selectedBand]
    ushapingKnobControlOutput,  \* self._ushapingKnobControlOutput
    ushapingKnobControl,        \* self._ushapingKnobControl
    outputEQ,           \* self.outputEQ: <<ch, band, field>> -> <<>> or <<value>>
    inputEQ,            \* self.inputEQ
    outputUShaping,     \* self.outputUShaping
    inputUShaping,      \* self.inputUShaping
    outputAllpass,      \* self.outputAllpass: <<ch, band, field>> -> <<>> or <<value>>
    outputGain,         \* self.outputGain: ch -> <<>> or <<gain in tenths of a dB>>
    inputGain,          \* self.inputGain
    outputGainToggle,   \* self._outputGainToggle: ch -> <<>> or <<"A">> or <<"B">>
    inputGainToggle,    \* self._inputGainToggle
    gainPrev,           \* recall memory: domain -> ch -> <<>> or <<previous gain>>
    prevCapture,        \* recall memory: domain -> ch -> <<>> or <<end of the armed capture window>>
    matrixGain,         \* self.matrixGain: <<i, o>> -> <<>> or <<gain in tenths of a dB>>
    connected,          \* Device Link reports connected
    gainFade,           \* the table of active fade jobs: [dom, ch, start, target, startTime, dur]
    outputDelay,        \* self.outputDelay: ch -> <<>> or <<samples>>
    inputDelay,         \* self.inputDelay
    matrixDelay,        \* self.matrixDelay: <<i, o>> -> [type, samples, bypass]
    outputHighpass,     \* self.outputHighpass: ch -> <<>> or <<bypass>>
    outputLowpass,      \* self.outputLowpass: ch -> <<>> or <<bypass>>
    rotaryPressState,   \* self._rotaryPressState: the object's own keys -> their values
    outputLinkGroupAssign,  \* self.outputLinkGroupAssign: the entries [ch, group] of the object
    inputLinkGroupAssign,   \* self.inputLinkGroupAssign
    config,             \* the stored instance config: <<>> (none) or <<field name -> value>>
    focus,              \* the group of callbacks this behaviour exercises
    sent,               \* the command lines the most recent callback sent to Device Link
    last                \* history: the most recent callback and what it did

soloVars == <<inMute, outMute, inputSoloState, outputSoloState, preSolo>>
accelVars == <<now, rotaryAccel>>
knobVars == <<eqKnobControlOutput, eqKnobControl, ushapingKnobControlOutput, ushapingKnobControl>>
eqVars == <<outputEQ, inputEQ, outputUShaping, inputUShaping, outputAllpass>>

\* what the callbacks of one subsystem leave alone
gainVars == <<outputGain, inputGain, outputGainToggle, inputGainToggle, gainPrev, prevCapture,
              matrixGain, connected, gainFade>>
delayVars == <<outputDelay, inputDelay, matrixDelay>>
\* the state of the buttons beside the knobs: filter bypass and coarse mode
filterVars == <<outputHighpass, outputLowpass, rotaryPressState>>
\* the place of the instance in the installation: its link groups and its connection
linkVars == <<outputLinkGroupAssign, inputLinkGroupAssign, config>>

\* what the callbacks of one subsystem leave alone
notSolo == <<accelVars, knobVars, eqVars, gainVars, delayVars, filterVars, linkVars>>
notKnob == <<soloVars, gainVars, delayVars, filterVars, linkVars>>
notGain == <<soloVars, accelVars, knobVars, eqVars, delayVars, filterVars, linkVars>>
notDelay == <<soloVars, accelVars, knobVars, eqVars, gainVars, filterVars, linkVars>>

vars == <<soloVars, accelVars, knobVars, eqVars, gainVars, delayVars, filterVars, linkVars, focus, sent, last>>

(***************************************************************************)
(* Bounds of the model.                                                    *)
(***************************************************************************)
NUM_INPUTS == 2
NUM_OUTPUTS == 2
MaxRawLen == 3
NumBands == 1
MaxTicks == 3

NUM_MATRIX_INPUTS == 1
MatrixInputs == 1..NUM_MATRIX_INPUTS
Inputs == 1..NUM_INPUTS
Outputs == 1..NUM_OUTPUTS

Range(s) == {s[i] : i \in 1..Len(s)}

Null == <<>>
Some(x) == <<x>>

Min(a, b) == IF a < b THEN a ELSE b
Max(a, b) == IF a > b THEN a ELSE b

(***************************************************************************)
(* Raw channel tokens as the host hands them over: a number, a numeric     *)
(* string ('2'), or a token that is not numeric at all.                    *)
(***************************************************************************)
NumTok(n) == [k |-> "num", v |-> n]
StrTok(n) == [k |-> "str", v |-> n]
BadTok == [k |-> "bad", v |-> 0]

TokensUpTo(max) == {NumTok(n) : n \in 0..(max + 1)} \cup {StrTok(n) : n \in 1..max} \cup {BadTok}

SeqsUpTo(S, n) == UNION {[1..m -> S] : m \in 0..n}

RawLists(max) == SeqsUpTo(TokensUpTo(max), MaxRawLen)

TokValidMut(tok, max) == tok.k # "bad" /\ tok.v \in 0..max

\* the range check of one token: numeric (number or numeric string) and in [1, max]
TokValid(tok, max) == tok.k # "bad" /\ tok.v \in 1..max

\* Channel Set Validator: first-occurrence order, duplicates and invalid tokens dropped
safeGetChannels(raw, max) ==
    LET F[i \in 0..Len(raw)] ==
            IF i = 0 THEN <<>>
            ELSE IF TokValid(raw[i], max) /\ raw[i].v \notin Range(F[i - 1])
                 THEN Append(F[i - 1], raw[i].v)
                 ELSE F[i - 1]
    IN F[Len(raw)]

(***************************************************************************)
(* Command Dispatcher helpers of the module instance.                      *)
(***************************************************************************)
Cmd(path, val) == [path |-> path, val |-> val]

\* self._setMute(domain, ch, val): optimistic store + one command
MuteCmd(dom, ch, val) == Cmd(<<dom, ch, "mute">>, val)

\* the commands of a loop `for ch = 1..n: _setMute(dom, ch, f[ch])`
MuteCmds(dom, n, f) == [ch \in 1..n |-> MuteCmd(dom, ch, f[ch])]

(***************************************************************************)
(* Mute: actions['output_mute_control'] / actions['input_mute_control'].   *)
(* Returns the new mute map and the commands sent.                         *)
(***************************************************************************)
MuteCallback(dom, n, mute, op, raw) ==
    LET chs == safeGetChannels(raw, n)
        want(m, ch) == IF op = "on" THEN TRUE ELSE IF op = "off" THEN FALSE ELSE ~m[ch]
        M[i \in 0..Len(chs)] ==
            IF i = 0 THEN mute ELSE [M[i - 1] EXCEPT ![chs[i]] = want(M[i - 1], chs[i])]
    IN IF Len(chs) = 0
       THEN [mute |-> mute, sent |-> <<>>, kind |-> "skip"]
       ELSE [mute |-> M[Len(chs)],
             sent |-> [i \in 1..Len(chs) |-> MuteCmd(dom, chs[i], M[i][chs[i]])],
             kind |-> "mute"]

(***************************************************************************)
(* Solo: actions['output_solo'] / actions['input_solo'].                   *)
(***************************************************************************)
\* mutant: only the sizes of the two sets are compared
isSameSoloMut(cur, soloSet) ==
    /\ cur # Null
    /\ Cardinality(cur[1].soloChannels) = Cardinality(soloSet)

\* isSameSolo: same size and every requested channel is in the current solo set
isSameSolo(cur, soloSet) ==
    /\ cur # Null
    /\ Cardinality(cur[1].soloChannels) = Cardinality(soloSet)
    /\ \A ch \in soloSet : ch \in cur[1].soloChannels

shouldApplySolo(cur, op, soloSet) ==
    IF op = "on" THEN TRUE
    ELSE IF op = "off" THEN FALSE
    ELSE ~isSameSolo(cur, soloSet)

\* mutant: a snapshot is taken on every activation
SoloPrevMuteMut(cur, mute) == mute

\* prevMute: the existing snapshot if there is one, else a snapshot of the mute map
SoloPrevMute(cur, mute) == IF cur # Null THEN cur[1].prevMute ELSE mute

\* mutant: the selected channels are muted too
SoloTargetMut(n, soloSet) == [ch \in 1..n |-> TRUE]

\* the mute map an activation writes: selected channels unmuted, the others muted
SoloTarget(n, soloSet) == [ch \in 1..n |-> ch \notin soloSet]

\* mutant: without a snapshot every channel is muted
UnsoloRestoredMut(n, cur) == IF cur # Null THEN cur[1].prevMute ELSE [ch \in 1..n |-> TRUE]

\* shouldMute = prevMute[ch] ?? false, with prevMute = currentSoloState?.prevMute || {}
UnsoloRestored(n, cur) == IF cur # Null THEN cur[1].prevMute ELSE [ch \in 1..n |-> FALSE]

SoloCallback(dom, n, mute, cur, op, raw) ==
    LET soloChannels == safeGetChannels(raw, n)
        soloSet == Range(soloChannels)
    IN IF Len(soloChannels) = 0
       THEN [mute |-> mute, solo |-> cur, sent |-> <<>>, kind |-> "skip"]
       ELSE IF shouldApplySolo(cur, op, soloSet)
       THEN [mute |-> SoloTarget(n, soloSet),
             solo |-> Some([soloChannels |-> soloSet, prevMute |-> SoloPrevMute(cur, mute)]),
             sent |-> MuteCmds(dom, n, SoloTarget(n, soloSet)),
             kind |-> "activate"]
       ELSE \* Unsolo
            LET restored == UnsoloRestored(n, cur)
            IN [mute |-> restored, solo |-> Null,
                sent |-> MuteCmds(dom, n, restored),
                kind |-> IF cur # Null THEN "deactivate" ELSE "off_unsoloed"]

Ops == {"on", "off", "toggle"}

(***************************************************************************)
(* The channel selections the callbacks are driven with: every subset of   *)
(* the domain in ascending order, and lists with an out-of-range token, a  *)
(* non-numeric token, a duplicate, a numeric string, a descending order.   *)
(***************************************************************************)
SetToRaw(S) ==
    LET F[T \in SUBSET S] ==
            IF T = {} THEN <<>>
            ELSE LET m == CHOOSE x \in T : \A y \in T : x >= y
                 IN Append(F[T \ {m}], NumTok(m))
    IN F[S]

\* a set of channels as the ascending array a select action stores
SetToSeq(S) ==
    LET F[T \in SUBSET S] ==
            IF T = {} THEN <<>>
            ELSE LET m == CHOOSE x \in T : \A y \in T : x >= y
                 IN Append(F[T \ {m}], m)
    IN F[S]

Selections(n) ==
    {SetToRaw(S) : S \in SUBSET (1..n)}
        \cup {<<NumTok(n + 1)>>, <<BadTok>>,
              <<StrTok(n), NumTok(n), NumTok(0)>>, <<NumTok(n), NumTok(1)>>}

\* history of the most recent callback; n counts the directly preceding solo
\* activations of the same domain that changed the solo set, saturating at 2
SoloCount(dom, cur, r) ==
    LET run == IF last.act = "solo" /\ last.dom = dom /\ last.kind = "activate"
               THEN last.n ELSE 0
    IN IF r.kind = "activate"
       THEN IF cur # Null /\ cur[1].soloChannels = r.solo[1].soloChannels
            THEN run ELSE Min(run + 1, 2)
       ELSE IF r.kind = "deactivate" THEN run
       ELSE 0

SoloLast(dom, n, cur, op, raw, r) ==
    [act |-> "solo", dom |-> dom, kind |-> r.kind, op |-> op,
     set |-> Range(safeGetChannels(raw, n)), n |-> SoloCount(dom, cur, r),
     \* the channels that were muted when the callback began
     was |-> {ch \in 1..n : IF dom = "input" THEN inMute[ch] ELSE outMute[ch]}]

\* preSolo follows the mute map while the domain is Unsoloed and is frozen while it
\* is Soloed: during a solo it is the mute map just before the first activation
NewPreSolo(dom, newSolo, newMute) ==
    IF newSolo = Null THEN [preSolo EXCEPT ![dom] = newMute] ELSE preSolo

output_solo(op, raw) ==
    LET r == SoloCallback("output", NUM_OUTPUTS, outMute, outputSoloState, op, raw)
    IN /\ outMute' = r.mute
       /\ outputSoloState' = r.solo
       /\ sent' = r.sent
       /\ preSolo' = NewPreSolo("output", r.solo, r.mute)
       /\ last' = SoloLast("output", NUM_OUTPUTS, outputSoloState, op, raw, r)
       /\ UNCHANGED <<inMute, inputSoloState, notSolo>>

input_solo(op, raw) ==
    LET r == SoloCallback("input", NUM_INPUTS, inMute, inputSoloState, op, raw)
    IN /\ inMute' = r.mute
       /\ inputSoloState' = r.solo
       /\ sent' = r.sent
       /\ preSolo' = NewPreSolo("input", r.solo, r.mute)
       /\ last' = SoloLast("input", NUM_INPUTS, inputSoloState, op, raw, r)
       /\ UNCHANGED <<outMute, outputSoloState, notSolo>>

MuteLast(dom, r) ==
    [act |-> "mute", dom |-> dom, kind |-> r.kind, op |-> "none", set |-> {}, n |-> 0]

output_mute_control(op, raw) ==
    LET r == MuteCallback("output", NUM_OUTPUTS, outMute, op, raw)
    IN /\ outMute' = r.mute
       /\ sent' = r.sent
       /\ preSolo' = NewPreSolo("output", outputSoloState, r.mute)
       /\ last' = MuteLast("output", r)
       /\ UNCHANGED <<inMute, inputSoloState, outputSoloState, notSolo>>

input_mute_control(op, raw) ==
    LET r == MuteCallback("input", NUM_INPUTS, inMute, op, raw)
    IN /\ inMute' = r.mute
       /\ sent' = r.sent
       /\ preSolo' = NewPreSolo("input", inputSoloState, r.mute)
       /\ last' = MuteLast("input", r)
       /\ UNCHANGED <<outMute, inputSoloState, outputSoloState, notSolo>>

(***************************************************************************)
(* Rotary acceleration (the block repeated in every accelerated knob).     *)
(***************************************************************************)
AccelWindowMs == 100
MaxTier == 3

\* an event without surfaceId is a button press
NoSurface == "undefined"

\* accelKey = `${name}_${e.surfaceId || 'default'}`
AccelKey(name, surf) == <<name, IF surf = "" THEN "default" ELSE surf>>
AccelNames == {"eq_bw", "ushaping_slope"}

\* the surface whose encoder turns each knob; a press comes without surface
RotarySurface(name) == IF name = "eq_bw" THEN "" ELSE "s1"
KnobSurfaces(name) == {NoSurface, RotarySurface(name)}
\* the accelerated knobs beside the bandwidth and the slope knobs
GainFreqAccelNames == {"eq_gain", "eq_freq", "ushaping_gain", "ushaping_freq"}
\* the Chingonizer's accelerated knob
ChingonizerAccelNames == {"chingonizer_slope"}
AccelKeys ==
    {AccelKey(nm, RotarySurface(nm)) : nm \in AccelNames \cup GainFreqAccelNames \cup ChingonizerAccelNames}

\* lastRotation = self._rotaryAccel[accelKey] || { time: 0, count: 0 }
LastRotation(acc, key) == IF acc[key] # Null THEN acc[key][1] ELSE [time |-> 0, count |-> 0]

\* mutant: the tier also grows at a gap of exactly the window
SpeedTierMut(lastRotation, t) ==
    IF t - lastRotation.time <= AccelWindowMs THEN Min(lastRotation.count + 1, MaxTier) ELSE 0

\* mutant: a slow event keeps the tier instead of resetting it
SpeedTierHold(lastRotation, t) ==
    IF t - lastRotation.time < AccelWindowMs THEN Min(lastRotation.count + 1, MaxTier)
    ELSE lastRotation.count

\* speedTier: 0, or one more than the last tier (at most 3) when timeDiff < 100
SpeedTier(lastRotation, t) ==
    IF t - lastRotation.time < AccelWindowMs THEN Min(lastRotation.count + 1, MaxTier) ELSE 0

\* self._rotaryAccel[accelKey] = { time: now, count: speedTier }
AccelStore(acc, key, t) ==
    [acc EXCEPT ![key] = Some([time |-> t, count |-> SpeedTier(LastRotation(acc, key), t)])]

(***************************************************************************)
(* Knob selection and the parameter stores the knobs write.                *)
(***************************************************************************)
Bands == 1..NumBands
\* U-Shaping has the bands 1-4 and the HF band 5
UShapingBands == 1..5

\* chs = ctrl?.selectedOutputs || [1]   (an empty array is truthy)
SelectedChs(ctrl) == IF ctrl.selected = Null THEN <<1>> ELSE ctrl.selected[1]

\* band = ctrl?.selectedBand || 1
SelectedBand(ctrl) == IF ctrl.selectedBand = Null THEN 1 ELSE ctrl.selectedBand[1]

\* value ?? dflt
OrDefault(opt, dflt) == IF opt = Null THEN dflt ELSE opt[1]

\* the writes of `for (const ch of chs) store[ch][band][field] = finalValue`
StoreAll(store, chs, band, field, final) ==
    [k \in DOMAIN store |->
        IF k[1] \in Range(chs) /\ k[2] = band /\ k[3] = field THEN Some(final[k]) ELSE store[k]]

\* mutant: the command of every channel is sent twice
KnobCmdsMut(dom, sub, chs, band, field, newStore) ==
    [i \in 1..(2 * Len(chs)) |->
        Cmd(<<dom, chs[(i + 1) \div 2], sub, band, field>>, newStore[<<chs[(i + 1) \div 2], band, field>>][1])]

\* one self._cmdSendLine(`/processing/<dom>/<ch>/<sub>/<band>/<field>=<finalValue>`)
\* per channel of the loop, carrying the value just stored
KnobCmds(dom, sub, chs, band, field, newStore) ==
    [i \in 1..Len(chs) |->
        Cmd(<<dom, chs[i], sub, band, field>>, newStore[<<chs[i], band, field>>][1])]

(***************************************************************************)
(* actions['output_eq_knob_bandwidth'].  Bandwidth is kept in hundredths.  *)
(***************************************************************************)
BwDeltaTiers == <<1, 5, 10, 20>>

Sign(x) == IF x >= 0 THEN 1 ELSE -1

\* Math.max(0.1, Math.min(2, Math.round(newValue * 100) / 100))
BwFinal(cur, delta) == Max(10, Min(200, OrDefault(cur, 100) + delta))

EqKnobBandwidth(dom, store, ctrl, acc, t, surf, optDelta) ==
    LET chs == SelectedChs(ctrl)
        band == SelectedBand(ctrl)
        key == AccelKey("eq_bw", surf)
        newAcc == IF surf # NoSurface THEN AccelStore(acc, key, t) ELSE acc
        delta == IF surf # NoSurface
                 THEN BwDeltaTiers[newAcc[key][1].count + 1] * Sign(optDelta)
                 ELSE optDelta
        final == [k \in DOMAIN store |-> BwFinal(store[k], delta)]
        newStore == StoreAll(store, chs, band, "bandwidth", final)
    IN [store |-> newStore, acc |-> newAcc,
        sent |-> KnobCmds(dom, "eq", chs, band, "bandwidth", newStore)]

\* what the most recent knob callback was: a rotation also notes the time since
\* the previous rotation of its key
KnobLast(act, dom, surf) ==
    [act |-> act, dom |-> dom, kind |-> IF surf = NoSurface THEN "press" ELSE "rotate",
     key |-> AccelKey(act, surf),
     gap |-> IF surf = NoSurface THEN 0
             ELSE now - LastRotation(rotaryAccel, AccelKey(act, surf)).time]

output_eq_knob_bandwidth(surf, optDelta) ==
    LET r == EqKnobBandwidth("output", outputEQ, eqKnobControlOutput, rotaryAccel, now, surf, optDelta)
    IN /\ outputEQ' = r.store
       /\ rotaryAccel' = r.acc
       /\ sent' = r.sent
       /\ last' = KnobLast("eq_bw", "output", surf)
       /\ UNCHANGED <<now, knobVars, inputEQ, outputUShaping, inputUShaping, outputAllpass, notKnob>>

(***************************************************************************)
(* actions['output_ushaping_knob_slope'] / actions['input_ushaping_knob_slope'] *)
(***************************************************************************)
\* slopes are kept in tenths
slopeValues == <<60, 120, 180, 240, 300, 360, 420, 480>>
SlopeStepTiers == <<1, 2, 3, 4>>

Abs(x) == IF x < 0 THEN -x ELSE x

\* index (from 1) of the first slope value closest to the current value
ClosestSlopeIndex(v) ==
    CHOOSE i \in 1..Len(slopeValues) :
        /\ \A j \in 1..Len(slopeValues) : Abs(slopeValues[i] - v) <= Abs(slopeValues[j] - v)
        /\ \A j \in 1..(i - 1) : Abs(slopeValues[j] - v) > Abs(slopeValues[i] - v)

SlopeFinal(cur, direction, stepCount) ==
    LET idx0 == ClosestSlopeIndex(OrDefault(cur, 120)) - 1
        n == Len(slopeValues)
        newIndex == IF direction = "up" THEN (idx0 + stepCount) % n
                    ELSE (idx0 - stepCount + n) % n
    IN slopeValues[newIndex + 1]

UShapingKnobSlope(dom, store, ctrl, acc, t, surf, direction) ==
    LET chs == SelectedChs(ctrl)
        band == SelectedBand(ctrl)
        key == AccelKey("ushaping_slope", surf)
        newAcc == IF surf # NoSurface THEN AccelStore(acc, key, t) ELSE acc
        stepCount == IF surf # NoSurface THEN SlopeStepTiers[newAcc[key][1].count + 1] ELSE 1
        final == [k \in DOMAIN store |-> SlopeFinal(store[k], direction, stepCount)]
        newStore == StoreAll(store, chs, band, "slope", final)
    IN [store |-> newStore, acc |-> newAcc,
        sent |-> KnobCmds(dom, "ushaping", chs, band, "slope", newStore)]

output_ushaping_knob_slope(surf, direction) ==
    LET r == UShapingKnobSlope("output", outputUShaping, ushapingKnobControlOutput,
                               rotaryAccel, now, surf, direction)
    IN /\ outputUShaping' = r.store
       /\ rotaryAccel' = r.acc
       /\ sent' = r.sent
       /\ last' = KnobLast("ushaping_slope", "output", surf)
       /\ UNCHANGED <<now, knobVars, outputEQ, inputEQ, inputUShaping, outputAllpass, notKnob>>

input_ushaping_knob_slope(surf, direction) ==
    LET r == UShapingKnobSlope("input", inputUShaping, ushapingKnobControl,
                               rotaryAccel, now, surf, direction)
    IN /\ inputUShaping' = r.store
       /\ rotaryAccel' = r.acc
       /\ sent' = r.sent
       /\ last' = KnobLast("ushaping_slope", "input", surf)
       /\ UNCHANGED <<now, knobVars, outputEQ, inputEQ, outputUShaping, outputAllpass, notKnob>>

(***************************************************************************)
(* Knob selection: actions['output_eq_select_output'],                     *)
(* actions['input_eq_select_input'], actions['output_ushaping_select_output'] *)
(***************************************************************************)
\* what the most recent select callback was; kind "skip" notes that the selection
\* normalised to empty
SelectLast(act, dom, chs) ==
    [act |-> act, dom |-> dom, kind |-> IF chs = <<>> THEN "skip" ELSE "select"]

\* self._eqKnobControlOutput.selectedOutputs = chs, whatever chs is
output_eq_select_output(raw) ==
    LET chs == safeGetChannels(raw, NUM_OUTPUTS)
    IN /\ eqKnobControlOutput' = [eqKnobControlOutput EXCEPT !.selected = Some(chs)]
       /\ sent' = <<>>
       /\ last' = SelectLast("eq_select", "output", chs)
       /\ UNCHANGED <<eqKnobControl, ushapingKnobControlOutput, ushapingKnobControl,
                      accelVars, eqVars, notKnob>>

\* self._eqKnobControl.selectedInputs = chs, whatever chs is
input_eq_select_input(raw) ==
    LET chs == safeGetChannels(raw, NUM_INPUTS)
    IN /\ eqKnobControl' = [eqKnobControl EXCEPT !.selected = Some(chs)]
       /\ sent' = <<>>
       /\ last' = SelectLast("eq_select", "input", chs)
       /\ UNCHANGED <<eqKnobControlOutput, ushapingKnobControlOutput, ushapingKnobControl,
                      accelVars, eqVars, notKnob>>

\* if (chs.length === 0) return; selectedOutputs = chs
output_ushaping_select_output(raw) ==
    LET chs == safeGetChannels(raw, NUM_OUTPUTS)
    IN /\ ushapingKnobControlOutput' =
            IF chs = <<>> THEN ushapingKnobControlOutput
            ELSE [ushapingKnobControlOutput EXCEPT !.selected = Some(chs)]
       /\ sent' = <<>>
       /\ last' = SelectLast("ushaping_select", "output", chs)
       /\ UNCHANGED <<eqKnobControlOutput, eqKnobControl, ushapingKnobControl,
                      accelVars, eqVars, notKnob>>

\* band = Number(e.options.band); an option outside 1-5 is refused with a warning
BandSelected(ctrl, band) ==
    IF band \in UShapingBands THEN [ctrl EXCEPT !.selectedBand = Some(band)] ELSE ctrl

BandLast(dom, band) ==
    [act |-> "ushaping_select_band", dom |-> dom,
     kind |-> IF band \in UShapingBands THEN "select" ELSE "skip"]

\* self._ushapingKnobControlOutput.selectedBand = band
output_ushaping_select_band(band) ==
    /\ ushapingKnobControlOutput' = BandSelected(ushapingKnobControlOutput, band)
    /\ sent' = <<>>
    /\ last' = BandLast("output", band)
    /\ UNCHANGED <<eqKnobControlOutput, eqKnobControl, ushapingKnobControl,
                   accelVars, eqVars, notKnob>>

\* self._ushapingKnobControl.selectedBand = band
input_ushaping_select_band(band) ==
    /\ ushapingKnobControl' = BandSelected(ushapingKnobControl, band)
    /\ sent' = <<>>
    /\ last' = BandLast("input", band)
    /\ UNCHANGED <<eqKnobControlOutput, eqKnobControl, ushapingKnobControlOutput,
                   accelVars, eqVars, notKnob>>

\* the clock advances by half the acceleration window
Tick ==
    /\ now + AccelWindowMs \div 2 <= 10 * AccelWindowMs + MaxTicks * (AccelWindowMs \div 2)
    /\ now' = now + AccelWindowMs \div 2
    /\ UNCHANGED <<rotaryAccel, knobVars, eqVars, notKnob, focus, sent, last>>

(***************************************************************************)
(* Gain, frequency and Q of the U-Shaping, parametric EQ and all-pass      *)
(* filters.  Gains are kept in tenths of a dB, frequencies in hundredths   *)
(* of a Hz, bandwidth, Q and slope in hundredths, hundredths and tenths.   *)
(***************************************************************************)
\* mutant: only the lower bound is enforced
ClampToMut(v, lo, hi) == Max(lo, v)

\* Math.max(lo, Math.min(hi, v))
ClampTo(v, lo, hi) == Max(lo, Min(hi, v))

\* what the most recent parameter callback was
ParamLast(act, dom, kind) == [act |-> act, dom |-> dom, kind |-> kind]

\* base = Number(isCoarse ? delta_coarse : delta_fine), replaced by the default
\* step when it is not finite or 0
KnobBase(isCoarse, opt, dfltFine, dfltCoarse) ==
    LET raw == IF isCoarse THEN opt.delta_coarse ELSE opt.delta_fine
    IN IF raw = Null \/ raw = Some(0) THEN (IF isCoarse THEN dfltCoarse ELSE dfltFine) ELSE raw[1]

\* sign = base >= 0 ? 1 : -1, overridden by a non-zero encoder_delta
KnobSign(base, enc) == IF enc # Null /\ enc # Some(0) THEN Sign(enc[1]) ELSE Sign(base)

\* delta = Math.abs(base) * sign
KnobDelta(isCoarse, opt, enc, dfltFine, dfltCoarse) ==
    LET base == KnobBase(isCoarse, opt, dfltFine, dfltCoarse)
    IN Abs(base) * KnobSign(base, enc)

\* actions['output_ushaping_knob_gain'] (lim 15 dB) and actions['output_eq_knob_gain']
\* (lim 18 dB): the fine / coarse gain knobs
KnobGain(dom, sub, store, ctrl, isCoarse, opt, enc, lim) ==
    LET chs == SelectedChs(ctrl)
        band == SelectedBand(ctrl)
        delta == KnobDelta(isCoarse, opt, enc, 1, 5)
        final == [k \in DOMAIN store |-> ClampTo(OrDefault(store[k], 0) + delta, -lim, lim)]
        newStore == StoreAll(store, chs, band, "gain", final)
    IN [store |-> newStore, sent |-> KnobCmds(dom, sub, chs, band, "gain", newStore)]

UShapingKnobGainLimit == 150
EqGainLimit == 180

output_ushaping_knob_gain(isCoarse, opt, enc) ==
    LET r == KnobGain("output", "ushaping", outputUShaping, ushapingKnobControlOutput,
                      isCoarse, opt, enc, UShapingKnobGainLimit)
    IN /\ outputUShaping' = r.store
       /\ sent' = r.sent
       /\ last' = ParamLast("ushaping_knob_gain", "output", "knob")
       /\ UNCHANGED <<accelVars, knobVars, outputEQ, inputEQ, inputUShaping, outputAllpass, notKnob>>

output_eq_knob_gain(isCoarse, opt, enc) ==
    LET r == KnobGain("output", "eq", outputEQ, eqKnobControlOutput, isCoarse, opt, enc, EqGainLimit)
    IN /\ outputEQ' = r.store
       /\ sent' = r.sent
       /\ last' = ParamLast("eq_knob_gain", "output", "knob")
       /\ UNCHANGED <<accelVars, knobVars, inputEQ, outputUShaping, inputUShaping, outputAllpass, notKnob>>

\* deltaTiers = [0.1, 0.5, 1.0, 2.0]
GainDeltaTiers == <<1, 5, 10, 20>>

\* actions['input_ushaping_knob_gain'] (lim 15 dB) and actions['input_eq_knob_gain']
\* (lim 18 dB): the accelerated gain knobs
KnobGainAccel(sub, name, store, ctrl, acc, t, surf, optDelta, lim) ==
    LET chs == SelectedChs(ctrl)
        band == SelectedBand(ctrl)
        key == AccelKey(name, surf)
        newAcc == IF surf # NoSurface THEN AccelStore(acc, key, t) ELSE acc
        delta == IF surf # NoSurface
                 THEN GainDeltaTiers[newAcc[key][1].count + 1] * Sign(optDelta)
                 ELSE optDelta
        final == [k \in DOMAIN store |-> ClampTo(OrDefault(store[k], 0) + delta, -lim, lim)]
        newStore == StoreAll(store, chs, band, "gain", final)
    IN [store |-> newStore, acc |-> newAcc,
        sent |-> KnobCmds("input", sub, chs, band, "gain", newStore)]

input_ushaping_knob_gain(surf, optDelta) ==
    LET r == KnobGainAccel("ushaping", "ushaping_gain", inputUShaping, ushapingKnobControl,
                           rotaryAccel, now, surf, optDelta, UShapingKnobGainLimit)
    IN /\ inputUShaping' = r.store
       /\ rotaryAccel' = r.acc
       /\ sent' = r.sent
       /\ last' = KnobLast("ushaping_gain", "input", surf)
       /\ UNCHANGED <<now, knobVars, outputEQ, inputEQ, outputUShaping, outputAllpass, notKnob>>

input_eq_knob_gain(surf, optDelta) ==
    LET r == KnobGainAccel("eq", "eq_gain", inputEQ, eqKnobControl,
                           rotaryAccel, now, surf, optDelta, EqGainLimit)
    IN /\ inputEQ' = r.store
       /\ rotaryAccel' = r.acc
       /\ sent' = r.sent
       /\ last' = KnobLast("eq_gain", "input", surf)
       /\ UNCHANGED <<now, knobVars, outputEQ, outputUShaping, inputUShaping, outputAllpass, notKnob>>

\* actions['input_eq_knob_bandwidth'] is the output callback on the input state
input_eq_knob_bandwidth(surf, optDelta) ==
    LET r == EqKnobBandwidth("input", inputEQ, eqKnobControl, rotaryAccel, now, surf, optDelta)
    IN /\ inputEQ' = r.store
       /\ rotaryAccel' = r.acc
       /\ sent' = r.sent
       /\ last' = KnobLast("eq_bw", "input", surf)
       /\ UNCHANGED <<now, knobVars, outputEQ, outputUShaping, inputUShaping, outputAllpass, notKnob>>

(***************************************************************************)
(* The frequency knobs.  The acceleration block sits inside the channel    *)
(* loop: every selected channel advances the tier of the key.              *)
(***************************************************************************)
\* deltaTiers by the octave of the current frequency
FreqDeltaTiers(cur) ==
    IF cur < 3100 THEN <<50, 100, 200, 400>>
    ELSE IF cur < 6300 THEN <<100, 200, 500, 1000>>
    ELSE IF cur < 12500 THEN <<200, 500, 1000, 2000>>
    ELSE IF cur < 25000 THEN <<500, 1000, 2000, 4000>>
    ELSE IF cur < 50000 THEN <<1000, 2000, 5000, 10000>>
    ELSE IF cur < 100000 THEN <<2000, 5000, 10000, 20000>>
    ELSE IF cur < 200000 THEN <<5000, 10000, 20000, 50000>>
    ELSE IF cur < 400000 THEN <<10000, 20000, 50000, 100000>>
    ELSE IF cur < 800000 THEN <<20000, 50000, 100000, 200000>>
    ELSE IF cur < 1600000 THEN <<50000, 100000, 200000, 400000>>
    ELSE <<100000, 200000, 300000, 500000>>

\* the tier the i-th selected channel of one event gets: the first channel sees
\* the stored rotation, every later one a rotation of the same event (timeDiff 0)
LoopTier(acc, key, t, i) == Min(SpeedTier(LastRotation(acc, key), t) + (i - 1), MaxTier)

\* self._rotaryAccel[accelKey] after the loop over n channels
LoopAccel(acc, key, t, n) ==
    IF n = 0 THEN acc ELSE [acc EXCEPT ![key] = Some([time |-> t, count |-> LoopTier(acc, key, t, n)])]

\* newValue < 100 ? Math.round(newValue * 100) / 100 : Math.round(newValue)
FreqRound(v) == IF v < 10000 THEN v ELSE ((v + 50) \div 100) * 100

\* one pass of the channel loop of a frequency knob; rng = [min, max, dflt, round]
FreqKnobFinal(cur, tier, surf, optDelta, rng) ==
    LET currentValue == OrDefault(cur, rng.dflt)
        delta == IF surf # NoSurface
                 THEN FreqDeltaTiers(currentValue)[tier + 1] * Sign(optDelta)
                 ELSE optDelta
        newValue == IF rng.round THEN FreqRound(currentValue + delta) ELSE currentValue + delta
    IN ClampTo(newValue, rng.min, rng.max)

\* position of a channel in the selection
IndexOf(chs, ch) == CHOOSE i \in 1..Len(chs) : chs[i] = ch

FreqKnob(dom, sub, name, store, ctrl, acc, t, surf, optDelta, rng) ==
    LET chs == SelectedChs(ctrl)
        band == SelectedBand(ctrl)
        key == AccelKey(name, surf)
        final == [k \in DOMAIN store |->
                    IF k[1] \in Range(chs)
                    THEN FreqKnobFinal(store[k],
                                       IF surf = NoSurface THEN 0
                                       ELSE LoopTier(acc, key, t, IndexOf(chs, k[1])),
                                       surf, optDelta, rng)
                    ELSE 0]
        newStore == StoreAll(store, chs, band, "frequency", final)
    IN [store |-> newStore,
        acc |-> IF surf # NoSurface THEN LoopAccel(acc, key, t, Len(chs)) ELSE acc,
        sent |-> KnobCmds(dom, sub, chs, band, "frequency", newStore)]

\* defaultFreqs
EqDefaultFreqs == <<3200, 12500, 50000, 200000, 800000, 6300, 25000, 100000, 400000, 1600000>>
FreqMin == 1000
FreqMax == 2000000

EqFreqRange(band) == [min |-> FreqMin, max |-> FreqMax, dflt |-> EqDefaultFreqs[band], round |-> TRUE]

output_eq_knob_frequency(surf, optDelta) ==
    LET r == FreqKnob("output", "eq", "eq_freq", outputEQ, eqKnobControlOutput, rotaryAccel, now,
                      surf, optDelta, EqFreqRange(SelectedBand(eqKnobControlOutput)))
    IN /\ outputEQ' = r.store
       /\ rotaryAccel' = r.acc
       /\ sent' = r.sent
       /\ last' = KnobLast("eq_freq", "output", surf)
       /\ UNCHANGED <<now, knobVars, inputEQ, outputUShaping, inputUShaping, outputAllpass, notKnob>>

input_eq_knob_frequency(surf, optDelta) ==
    LET r == FreqKnob("input", "eq", "eq_freq", inputEQ, eqKnobControl, rotaryAccel, now,
                      surf, optDelta, EqFreqRange(SelectedBand(eqKnobControl)))
    IN /\ inputEQ' = r.store
       /\ rotaryAccel' = r.acc
       /\ sent' = r.sent
       /\ last' = KnobLast("eq_freq", "input", surf)
       /\ UNCHANGED <<now, knobVars, outputEQ, outputUShaping, inputUShaping, outputAllpass, notKnob>>

\* freqRanges[band] || { min: 20, max: 20000, default: 1000 }
UShapingFreqRange(band) ==
    IF band = 1 THEN [min |-> 2000, max |-> 250000, dflt |-> 6200, round |-> FALSE]
    ELSE IF band = 2 THEN [min |-> 4000, max |-> 500000, dflt |-> 25000, round |-> FALSE]
    ELSE IF band = 3 THEN [min |-> 8000, max |-> 1000000, dflt |-> 100000, round |-> FALSE]
    ELSE IF band = 4 THEN [min |-> 16000, max |-> 2000000, dflt |-> 400000, round |-> FALSE]
    ELSE [min |-> 2000, max |-> 2000000, dflt |-> 100000, round |-> FALSE]

\* band 5 (HF) has no frequency: the callback warns and returns
UShapingHfBand == 5

output_ushaping_knob_frequency(surf, optDelta) ==
    LET band == SelectedBand(ushapingKnobControlOutput)
        r == FreqKnob("output", "ushaping", "ushaping_freq", outputUShaping,
                      ushapingKnobControlOutput, rotaryAccel, now, surf, optDelta,
                      UShapingFreqRange(band))
    IN /\ outputUShaping' = IF band = UShapingHfBand THEN outputUShaping ELSE r.store
       /\ rotaryAccel' = IF band = UShapingHfBand THEN rotaryAccel ELSE r.acc
       /\ sent' = IF band = UShapingHfBand THEN <<>> ELSE r.sent
       /\ last' = IF band = UShapingHfBand THEN ParamLast("ushaping_freq", "output", "skip")
                  ELSE KnobLast("ushaping_freq", "output", surf)
       /\ UNCHANGED <<now, knobVars, outputEQ, inputEQ, inputUShaping, outputAllpass, notKnob>>

input_ushaping_knob_frequency(surf, optDelta) ==
    LET band == SelectedBand(ushapingKnobControl)
        r == FreqKnob("input", "ushaping", "ushaping_freq", inputUShaping,
                      ushapingKnobControl, rotaryAccel, now, surf, optDelta,
                      UShapingFreqRange(band))
    IN /\ inputUShaping' = IF band = UShapingHfBand THEN inputUShaping ELSE r.store
       /\ rotaryAccel' = IF band = UShapingHfBand THEN rotaryAccel ELSE r.acc
       /\ sent' = IF band = UShapingHfBand THEN <<>> ELSE r.sent
       /\ last' = IF band = UShapingHfBand THEN ParamLast("ushaping_freq", "input", "skip")
                  ELSE KnobLast("ushaping_freq", "input", surf)
       /\ UNCHANGED <<now, knobVars, outputEQ, inputEQ, outputUShaping, outputAllpass, notKnob>>

(***************************************************************************)
(* actions['input_ushaping_adjust'], the Chingonizer and its knobs.  They  *)
(* send the command and hand the value to _applyInputUShaping, which       *)
(* stores it.                                                              *)
(***************************************************************************)
\* the commands of a channel loop that sends m commands per channel
Flatten(chs, m, cmdsOf) ==
    [p \in 1..(Len(chs) * m) |-> cmdsOf[chs[((p - 1) \div m) + 1]][((p - 1) % m) + 1]]

\* the writes of a channel loop: `written` maps the keys it writes to their values
StoreWritten(store, written) ==
    [k \in DOMAIN store |-> IF k \in DOMAIN written THEN Some(written[k]) ELSE store[k]]

UShapingCmd(dom, ch, band, param, val) == Cmd(<<dom, ch, "ushaping", band, param>>, val)

\* the clamp bounds and the `??` default of each parameter of the action
AdjustBounds(param) ==
    IF param = "gain" THEN [lo |-> -EqGainLimit, hi |-> EqGainLimit, dflt |-> 0]
    ELSE IF param = "frequency" THEN [lo |-> FreqMin, hi |-> FreqMax, dflt |-> 100000]
    ELSE [lo |-> 1, hi |-> 20, dflt |-> 10]

UShapingAdjustFinal(cur, param, mode, opt) ==
    LET b == AdjustBounds(param)
    IN IF mode = "adjust" THEN ClampTo(OrDefault(cur, b.dflt) + opt.delta, b.lo, b.hi)
       ELSE ClampTo(opt.value, b.lo, b.hi)

UShapingAdjust(store, raw, band, param, mode, opt) ==
    LET chs == safeGetChannels(raw, NUM_INPUTS)
        skip == chs = <<>> \/ (band = UShapingHfBand /\ param # "gain")
        written == [k \in {<<ch, band, param>> : ch \in Range(chs)} |->
                        UShapingAdjustFinal(store[k], param, mode, opt)]
    IN IF skip THEN [store |-> store, sent |-> <<>>, kind |-> "skip"]
       ELSE [store |-> StoreWritten(store, written),
             sent |-> [i \in 1..Len(chs) |->
                          UShapingCmd("input", chs[i], band, param, written[<<chs[i], band, param>>])],
             kind |-> mode]

input_ushaping_adjust(raw, band, param, mode, opt) ==
    LET r == UShapingAdjust(inputUShaping, raw, band, param, mode, opt)
    IN /\ inputUShaping' = r.store
       /\ sent' = r.sent
       /\ last' = ParamLast("ushaping_adjust", "input", r.kind)
       /\ UNCHANGED <<accelVars, knobVars, outputEQ, inputEQ, outputUShaping, outputAllpass, notKnob>>

ChingonizerFreqMin == 16000
ChingonizerFreqMax == 250000
\* slopeValue = 1
ChingonizerSlope == 10
ChingonizerBands == 1..4

\* mutant: band 5 takes the gain of band 1 as it is
ChingonizerWritesMut(chs, freq, slope, gain) ==
    LET keys == {<<ch, b, "frequency">> : ch \in Range(chs), b \in IF freq = Null THEN {} ELSE ChingonizerBands}
                \cup {<<ch, b, "slope">> : ch \in Range(chs), b \in IF slope = Null THEN {} ELSE ChingonizerBands}
                \cup {<<ch, b, "gain">> : ch \in Range(chs), b \in IF gain = Null THEN {} ELSE {1, UShapingHfBand}}
    IN [k \in keys |->
          IF k[3] = "frequency" THEN freq[1][k[1]]
          ELSE IF k[3] = "slope" THEN slope[1]
          ELSE ClampTo(gain[1][k[1]], -EqGainLimit, EqGainLimit)]

\* what the Chingonizer writes for one channel: the frequency (and, when it is
\* given, the slope) of bands 1-4 and the mirrored gains of bands 1 and 5
ChingonizerWrites(chs, freq, slope, gain) ==
    LET keys == {<<ch, b, "frequency">> : ch \in Range(chs), b \in IF freq = Null THEN {} ELSE ChingonizerBands}
                \cup {<<ch, b, "slope">> : ch \in Range(chs), b \in IF slope = Null THEN {} ELSE ChingonizerBands}
                \cup {<<ch, b, "gain">> : ch \in Range(chs), b \in IF gain = Null THEN {} ELSE {1, UShapingHfBand}}
    IN [k \in keys |->
          IF k[3] = "frequency" THEN freq[1][k[1]]
          ELSE IF k[3] = "slope" THEN slope[1]
          ELSE IF k[2] = 1 THEN gain[1][k[1]]
          ELSE ClampTo(-gain[1][k[1]], -EqGainLimit, EqGainLimit)]

Chingonizer(store, raw, freqRaw, gainRaw) ==
    LET chs == safeGetChannels(raw, NUM_INPUTS)
        freq == ClampTo(freqRaw, ChingonizerFreqMin, ChingonizerFreqMax)
        band1Gain == ClampTo(gainRaw, -EqGainLimit, EqGainLimit)
        written == ChingonizerWrites(chs, Some([ch \in Inputs |-> freq]), Some(ChingonizerSlope),
                                     Some([ch \in Inputs |-> band1Gain]))
        cmdsOf == [ch \in Range(chs) |->
                     [i \in 1..8 |->
                         LET b == (i + 1) \div 2
                             param == IF i % 2 = 1 THEN "frequency" ELSE "slope"
                         IN UShapingCmd("input", ch, b, param, written[<<ch, b, param>>])]
                     \o <<UShapingCmd("input", ch, 1, "gain", written[<<ch, 1, "gain">>]),
                          UShapingCmd("input", ch, UShapingHfBand, "gain",
                                      written[<<ch, UShapingHfBand, "gain">>])>>]
    IN [store |-> StoreWritten(store, written), sent |-> Flatten(chs, 10, cmdsOf),
        kind |-> IF chs = <<>> THEN "skip" ELSE "set"]

input_ushaping_chingonizer(raw, freqRaw, gainRaw) ==
    LET r == Chingonizer(inputUShaping, raw, freqRaw, gainRaw)
    IN /\ inputUShaping' = r.store
       /\ sent' = r.sent
       /\ last' = ParamLast("chingonizer", "input", r.kind)
       /\ UNCHANGED <<accelVars, knobVars, outputEQ, inputEQ, outputUShaping, outputAllpass, notKnob>>

\* chs = overrideChs.length > 0 ? overrideChs : selectedInputs || [1]
ChingonizerChs(raw, ctrl) ==
    LET overrideChs == safeGetChannels(raw, NUM_INPUTS)
    IN IF Len(overrideChs) > 0 THEN overrideChs ELSE SelectedChs(ctrl)

ChingonizerKnobGain(store, ctrl, raw, isCoarse, opt, enc) ==
    LET chs == ChingonizerChs(raw, ctrl)
        delta == KnobDelta(isCoarse, opt, enc, 1, 1)
        newGain == [ch \in Inputs |->
                      ClampTo(OrDefault(store[<<ch, 1, "gain">>], 0) + delta, -EqGainLimit, EqGainLimit)]
        written == ChingonizerWrites(chs, Null, Null, Some(newGain))
        cmdsOf == [ch \in Range(chs) |->
                     <<UShapingCmd("input", ch, 1, "gain", written[<<ch, 1, "gain">>]),
                       UShapingCmd("input", ch, UShapingHfBand, "gain",
                                   written[<<ch, UShapingHfBand, "gain">>])>>]
    IN [store |-> StoreWritten(store, written), sent |-> Flatten(chs, 2, cmdsOf)]

input_ushaping_chingonizer_knob_gain(raw, isCoarse, opt, enc) ==
    LET r == ChingonizerKnobGain(inputUShaping, ushapingKnobControl, raw, isCoarse, opt, enc)
    IN /\ inputUShaping' = r.store
       /\ sent' = r.sent
       /\ last' = ParamLast("chingonizer_knob_gain", "input", "knob")
       /\ UNCHANGED <<accelVars, knobVars, outputEQ, inputEQ, outputUShaping, outputAllpass, notKnob>>

ChingonizerKnobFrequency(store, ctrl, raw, isCoarse, opt, enc) ==
    LET chs == ChingonizerChs(raw, ctrl)
        delta == KnobDelta(isCoarse, opt, enc, 1000, 1000)
        newFreq == [ch \in Inputs |->
                      ClampTo(OrDefault(store[<<ch, 1, "frequency">>], 100000) + delta,
                              ChingonizerFreqMin, ChingonizerFreqMax)]
        written == ChingonizerWrites(chs, Some(newFreq), Null, Null)
        cmdsOf == [ch \in Range(chs) |->
                     [b \in 1..4 |-> UShapingCmd("input", ch, b, "frequency", written[<<ch, b, "frequency">>])]]
    IN [store |-> StoreWritten(store, written), sent |-> Flatten(chs, 4, cmdsOf)]

input_ushaping_chingonizer_knob_frequency(raw, isCoarse, opt, enc) ==
    LET r == ChingonizerKnobFrequency(inputUShaping, ushapingKnobControl, raw, isCoarse, opt, enc)
    IN /\ inputUShaping' = r.store
       /\ sent' = r.sent
       /\ last' = ParamLast("chingonizer_knob_freq", "input", "knob")
       /\ UNCHANGED <<accelVars, knobVars, outputEQ, inputEQ, outputUShaping, outputAllpass, notKnob>>

\* mutant: the Chingonizer steps like the U-Shaping slope knobs
ChingonizerSlopeStepTiersMut == <<1, 2, 3, 4>>

\* stepTiers = [1, 1, 2, 3]
ChingonizerSlopeStepTiers == <<1, 1, 2, 3>>
\* the Chingonizer's slopes 1 and 6, in tenths
ChingonizerSlopeMin == 10
ChingonizerSlopeMax == 60

\* direction = e.options.direction || 'up', replaced by the direction of a
\* non-zero encoder_delta
KnobDirection(direction, enc) ==
    IF enc # Null /\ enc # Some(0) THEN (IF enc[1] < 0 THEN "down" ELSE "up") ELSE direction

\* currentSlope = Math.max(1, Math.min(6, Number(slope ?? 1)));
\* newSlope = up ? Math.min(6, currentSlope + stepCount) : Math.max(1, currentSlope - stepCount)
ChingonizerSlopeFinal(cur, direction, stepCount) ==
    LET currentSlope == ClampTo(OrDefault(cur, ChingonizerSlopeMin), ChingonizerSlopeMin, ChingonizerSlopeMax)
    IN IF direction = "up" THEN Min(ChingonizerSlopeMax, currentSlope + 10 * stepCount)
       ELSE Max(ChingonizerSlopeMin, currentSlope - 10 * stepCount)

\* actions['input_ushaping_chingonizer_knob_slope']: the slope of band 1 moves by
\* the tier's step count and bands 1-4 all get the new slope
ChingonizerKnobSlope(store, ctrl, acc, t, surf, direction, enc) ==
    LET chs == SelectedChs(ctrl)
        dir == KnobDirection(direction, enc)
        key == AccelKey("chingonizer_slope", surf)
        newAcc == IF surf # NoSurface THEN AccelStore(acc, key, t) ELSE acc
        stepCount == IF surf # NoSurface THEN ChingonizerSlopeStepTiers[newAcc[key][1].count + 1] ELSE 1
        written == [k \in {<<ch, b, "slope">> : ch \in Range(chs), b \in ChingonizerBands} |->
                       ChingonizerSlopeFinal(store[<<k[1], 1, "slope">>], dir, stepCount)]
        cmdsOf == [ch \in Range(chs) |->
                     [b \in 1..4 |-> UShapingCmd("input", ch, b, "slope", written[<<ch, b, "slope">>])]]
    IN [store |-> StoreWritten(store, written), acc |-> newAcc, sent |-> Flatten(chs, 4, cmdsOf)]

input_ushaping_chingonizer_knob_slope(surf, direction, enc) ==
    LET r == ChingonizerKnobSlope(inputUShaping, ushapingKnobControl, rotaryAccel, now, surf, direction, enc)
    IN /\ inputUShaping' = r.store
       /\ rotaryAccel' = r.acc
       /\ sent' = r.sent
       /\ last' = KnobLast("chingonizer_slope", "input", surf)
       /\ UNCHANGED <<now, knobVars, outputEQ, inputEQ, outputUShaping, outputAllpass, notKnob>>

(***************************************************************************)
(* actions['output_highpass_bypass'] / actions['output_lowpass_bypass'].   *)
(* The value goes to _setOutputHighpassBypass / _setOutputLowpassBypass    *)
(* (or the command is sent and the value handed to _applyOutputFilter),    *)
(* which send the command and store the flag.                              *)
(***************************************************************************)
\* !!self?.outputHighpass?.[ch]?.bypass
Bypassed(store, ch) == store[ch] = Some(TRUE)

\* bypass=${bypass ? 'true' : 'false'}
BoolText(b) == IF b THEN "true" ELSE "false"

\* op = String(e.options?.operation || 'toggle')
BypassOperation(opOpt) == OrDefault(opOpt, "toggle")

\* wantEngaged = op === 'Enabled'
HighpassWantEngaged(op) == op = "Enabled"

\* wantEngaged = op === 'on'
LowpassWantEngaged(op) == op = "on"

WantEngaged(filter, op) ==
    IF filter = "highpass" THEN HighpassWantEngaged(op) ELSE LowpassWantEngaged(op)

\* the loop over the channels: a toggle inverts the stored flag, any other
\* operation sets bypass = !wantEngaged
FilterBypass(store, filter, raw, opOpt) ==
    LET chs == safeGetChannels(raw, NUM_OUTPUTS)
        op == BypassOperation(opOpt)
        next == [ch \in Range(chs) |->
                    IF op = "toggle" THEN ~Bypassed(store, ch) ELSE ~WantEngaged(filter, op)]
    IN [store |-> [ch \in DOMAIN store |-> IF ch \in Range(chs) THEN Some(next[ch]) ELSE store[ch]],
        sent |-> [i \in 1..Len(chs) |->
                     Cmd(<<"output", chs[i], filter, 0, "bypass">>, BoolText(next[chs[i]]))],
        kind |-> IF chs = <<>> THEN "skip" ELSE op,
        chs |-> Range(chs)]

\* what the most recent bypass callback was
BypassLast(act, r) == [act |-> act, dom |-> "output", kind |-> r.kind, chs |-> r.chs]

output_highpass_bypass(raw, opOpt) ==
    LET r == FilterBypass(outputHighpass, "highpass", raw, opOpt)
    IN /\ outputHighpass' = r.store
       /\ sent' = r.sent
       /\ last' = BypassLast("highpass_bypass", r)
       /\ UNCHANGED <<outputLowpass, rotaryPressState, linkVars, soloVars, accelVars, knobVars, eqVars, gainVars, delayVars>>

output_lowpass_bypass(raw, opOpt) ==
    LET r == FilterBypass(outputLowpass, "lowpass", raw, opOpt)
    IN /\ outputLowpass' = r.store
       /\ sent' = r.sent
       /\ last' = BypassLast("lowpass_bypass", r)
       /\ UNCHANGED <<outputHighpass, rotaryPressState, linkVars, soloVars, accelVars, knobVars, eqVars, gainVars, delayVars>>

(***************************************************************************)
(* The coarse-mode buttons.  An id is a string, here a sequence of          *)
(* characters, and the empty sequence stands for both a missing id and ''. *)
(* An event is [surfaceId, controlId, event |-> [surfaceId, controlId]].   *)
(***************************************************************************)
DefaultSurface == <<"default">>
KeySeparator == <<":", ":">>

\* a || b || c on ids
FirstId(a, b, c) == IF a # <<>> THEN a ELSE IF b # <<>> THEN b ELSE c

\* surf = ev?.surfaceId || ev?.event?.surfaceId || 'default'
\* ctrl = ev?.controlId || ev?.event?.controlId || null
\* return ctrl ? `${surf}::${ctrl}` : null
buildRotaryKey(ev) ==
    LET surf == FirstId(ev.surfaceId, ev.event.surfaceId, DefaultSurface)
        ctrl == FirstId(ev.controlId, ev.event.controlId, <<>>)
    IN IF ctrl # <<>> THEN Some(surf \o KeySeparator \o ctrl) ELSE Null

\* self._rotaryPressState[key], undefined read as false
PressedAt(state, key) == key \in DOMAIN state /\ state[key]

\* isCoarse = key && self._rotaryPressState?.[key]
IsCoarse(state, ev) ==
    LET key == buildRotaryKey(ev) IN key # Null /\ PressedAt(state, key[1])

\* state[key] = v
WithEntry(state, key, v) == [k \in DOMAIN state \cup {key} |-> IF k = key THEN v ELSE state[k]]

\* delete state[key]
WithoutEntry(state, key) == [k \in DOMAIN state \ {key} |-> state[k]]

\* the toggle branch with the deletion left out
CoarseToggledMut(state, key) == WithEntry(state, key, ~PressedAt(state, key))

\* state[key] = !state[key]; if (!state[key]) delete state[key]
CoarseToggled(state, key) ==
    LET flipped == WithEntry(state, key, ~PressedAt(state, key))
    IN IF ~flipped[key] THEN WithoutEntry(flipped, key) ELSE flipped

\* the body of the callback after the key was built
CoarseMode(state, ev, op) ==
    LET key == buildRotaryKey(ev)
    IN IF key = Null THEN state
       ELSE IF op = "press" THEN WithEntry(state, key[1], TRUE)
       ELSE IF op = "release" THEN WithoutEntry(state, key[1])
       ELSE CoarseToggled(state, key[1])

CoarseLast(act, dom, ev, op) ==
    [act |-> act, dom |-> dom, kind |-> "coarse_mode", op |-> op, key |-> buildRotaryKey(ev)]

CoarseModeCallback(act, dom, ev, op) ==
    /\ rotaryPressState' = CoarseMode(rotaryPressState, ev, op)
    /\ sent' = <<>>
    /\ last' = CoarseLast(act, dom, ev, op)
    /\ UNCHANGED <<outputHighpass, outputLowpass, linkVars, soloVars, accelVars, knobVars, eqVars,
                   gainVars, delayVars>>

input_ushaping_chingonizer_freq_coarse_mode(ev, op) ==
    CoarseModeCallback("chingonizer_freq_coarse_mode", "input", ev, op)

output_ushaping_gain_coarse_mode(ev, op) ==
    CoarseModeCallback("ushaping_gain_coarse_mode", "output", ev, op)

output_allpass_q_coarse_mode(ev, op) ==
    CoarseModeCallback("allpass_q_coarse_mode", "output", ev, op)

(***************************************************************************)
(* The upgrade scripts V2 and V3 of the instance config.  A config is a    *)
(* JavaScript object: a function from the names of its own fields to       *)
(* values; a value has a type, and a string is a sequence of characters.   *)
(* Numbers are integers or NaN.                                            *)
(***************************************************************************)
\* a JavaScript number: an integer or NaN
JsNum(n) == [nan |-> FALSE, v |-> n]
NaN == [nan |-> TRUE, v |-> 0]

Str(s) == [t |-> "string", s |-> s, n |-> 0]
Num(n) == [t |-> "number", s |-> <<>>, n |-> n]
NumNaN == [t |-> "nan", s |-> <<>>, n |-> 0]
JsNull == [t |-> "null", s |-> <<>>, n |-> 0]
Undefined == [t |-> "undefined", s |-> <<>>, n |-> 0]

\* cfg.name, undefined for a field the object does not have
Field(cfg, name) == IF name \in DOMAIN cfg THEN cfg[name] ELSE Undefined

\* { ...cfg, name: v }
WithField(cfg, name, v) == [f \in DOMAIN cfg \cup {name} |-> IF f = name THEN v ELSE cfg[f]]

\* delete cfg.name
WithoutField(cfg, name) == [f \in DOMAIN cfg \ {name} |-> cfg[f]]

\* !!v
Truthy(v) == \/ v.t = "string" /\ v.s # <<>>
             \/ v.t = "number" /\ v.n # 0

RECURSIVE TrimStart(_)
TrimStart(s) == IF s # <<>> /\ Head(s) = " " THEN TrimStart(Tail(s)) ELSE s

RECURSIVE TrimEnd(_)
TrimEnd(s) == IF s # <<>> /\ s[Len(s)] = " " THEN TrimEnd(SubSeq(s, 1, Len(s) - 1)) ELSE s

\* s.trim()
Trim(s) == TrimEnd(TrimStart(s))

Digits == <<"0", "1", "2", "3", "4", "5", "6", "7", "8", "9">>
IsDigit(c) == \E d \in 1..10 : Digits[d] = c
DigitValue(c) == (CHOOSE d \in 1..10 : Digits[d] = c) - 1
AllDigits(s) == s # <<>> /\ \A i \in 1..Len(s) : IsDigit(s[i])

RECURSIVE DecimalValue(_)
DecimalValue(s) ==
    IF s = <<>> THEN 0 ELSE 10 * DecimalValue(SubSeq(s, 1, Len(s) - 1)) + DigitValue(s[Len(s)])

\* Number(s) of a string of digits, '-', and other characters: blank is 0
StringToNumber(s) ==
    LET t == Trim(s)
    IN IF t = <<>> THEN JsNum(0)
       ELSE IF AllDigits(t) THEN JsNum(DecimalValue(t))
       ELSE IF Head(t) = "-" /\ AllDigits(Tail(t)) THEN JsNum(-DecimalValue(Tail(t)))
       ELSE NaN

\* Number(v)
JsNumber(v) ==
    IF v.t = "number" THEN JsNum(v.n)
    ELSE IF v.t = "null" THEN JsNum(0)
    ELSE IF v.t = "string" THEN StringToNumber(v.s)
    ELSE NaN

\* s.lastIndexOf(c), counted from 1; 0 when there is none
LastIndexOf(s, c) ==
    LET at == {i \in 1..Len(s) : s[i] = c}
    IN IF at = {} THEN 0 ELSE CHOOSE i \in at : \A j \in at : j <= i

\* s.indexOf(c), counted from 1; 0 when there is none
IndexOf1(s, c) ==
    LET at == {i \in 1..Len(s) : s[i] = c}
    IN IF at = {} THEN 0 ELSE CHOOSE i \in at : \A j \in at : i <= j

\* trimmed.match(/^\[([^\]]+)\]:(\d+)$/): the position of the closing bracket, or 0
BracketMatch(s) ==
    LET close == IndexOf1(s, "]")
    IN IF /\ s # <<>> /\ Head(s) = "["
          /\ close >= 3
          /\ Len(s) >= close + 2
          /\ s[close + 1] = ":"
          /\ AllDigits(SubSeq(s, close + 2, Len(s)))
       THEN close ELSE 0

\* parsedHost and parsedPort of the trimmed bonjour_host; <<>> is null
ParseBonjourHost(trimmed) ==
    IF trimmed # <<>> /\ Head(trimmed) = "["
    THEN LET close == BracketMatch(trimmed)
         IN IF close # 0
            THEN [host |-> Some(SubSeq(trimmed, 2, close - 1)),
                  port |-> Some(JsNum(DecimalValue(SubSeq(trimmed, close + 2, Len(trimmed)))))]
            ELSE IF trimmed[Len(trimmed)] = "]"
            THEN [host |-> Some(SubSeq(trimmed, 2, Len(trimmed) - 1)), port |-> Null]
            ELSE [host |-> Null, port |-> Null]
    ELSE LET lastColonIndex == LastIndexOf(trimmed, ":")
         IN IF lastColonIndex # 0
            THEN LET parsed == StringToNumber(SubSeq(trimmed, lastColonIndex + 1, Len(trimmed)))
                 IN [host |-> Some(Trim(SubSeq(trimmed, 1, lastColonIndex - 1))),
                     port |-> IF parsed.nan THEN Null ELSE Some(parsed)]
            ELSE IF trimmed # <<>>
            THEN [host |-> Some(trimmed), port |-> Null]
            ELSE [host |-> Null, port |-> Null]

PortMin == 1
PortMax == 65535
DefaultPort == 25003

\* Number.isFinite(p) && p >= 1 && p <= 65535
ValidPort(p) == ~p.nan /\ p.v >= PortMin /\ p.v <= PortMax

\* the parsed port before the manual one
V2PortMut(manualPort, parsedPort) ==
    IF parsedPort # Null /\ ValidPort(parsedPort[1]) THEN parsedPort[1].v
    ELSE IF ValidPort(manualPort) THEN manualPort.v
    ELSE DefaultPort

\* port = hasManualPort ? manualPort : (parsedPort finite and in range) ? parsedPort : 25003
V2Port(manualPort, parsedPort) ==
    IF ValidPort(manualPort) THEN manualPort.v
    ELSE IF parsedPort # Null /\ ValidPort(parsedPort[1]) THEN parsedPort[1].v
    ELSE DefaultPort

\* upgrade script V2: updatedConfig, <<>> for null.  bonjour_host is a string
\* where it is truthy, so String(bonjourHost) is the string itself
UpgradeV2(cfgOpt) ==
    IF cfgOpt = Null THEN Null
    ELSE LET cfg == cfgOpt[1]
             bonjourHost == Field(cfg, "bonjour_host")
         IN IF Truthy(bonjourHost)
            THEN LET parsed == ParseBonjourHost(Trim(bonjourHost.s))
                     manualHost == Field(cfg, "host")
                     manualPort == JsNumber(Field(cfg, "port"))
                     hasManualHost == manualHost.t = "string" /\ Trim(manualHost.s) # <<>>
                     host == IF hasManualHost THEN manualHost
                             ELSE IF parsed.host = Null THEN JsNull ELSE Str(parsed.host[1])
                     port == V2Port(manualPort, parsed.port)
                     updated == IF Truthy(host)
                                THEN WithField(WithField(cfg, "host", host), "port", Num(port))
                                ELSE cfg
                 IN Some(WithoutField(updated, "bonjour_host"))
            ELSE IF "bonjour_host" \in DOMAIN cfg
            THEN Some(WithoutField(cfg, "bonjour_host"))
            ELSE Null

DEFAULT_VIRTUAL_HOST == <<"1", "2", "7", ".", "0", ".", "0", ".", "1">>
VIRTUAL_BASE_PORT == 50503
VIRTUAL_PORT_STEP == 100
VIRTUAL_MIN_ID == 1
VIRTUAL_MAX_ID == 20

\* c.toLowerCase() of the letters the model uses in capitals
LowerChar(c) == IF c = "L" THEN "l" ELSE c
ToLowerCase(s) == [i \in 1..Len(s) |-> LowerChar(s[i])]

\* ['127.0.0.1', 'localhost', '::1', '[::1]']
VirtualHostNames ==
    {DEFAULT_VIRTUAL_HOST, <<"l", "o", "c", "a", "l", "h", "o", "s", "t">>,
     <<":", ":", "1">>, <<"[", ":", ":", "1", "]">>}

\* !v || typeof v !== 'string' || v.trim() === ''
BlankHost(v) == ~Truthy(v) \/ v.t # "string" \/ Trim(v.s) = <<>>

\* virtualIdFromPort: <<>> for null
VirtualIdFromPort(port) ==
    IF port.nan THEN Null
    ELSE LET diff == VIRTUAL_BASE_PORT - port.v
         IN IF /\ diff >= 0
               /\ diff <= (VIRTUAL_MAX_ID - VIRTUAL_MIN_ID) * VIRTUAL_PORT_STEP
               /\ diff % VIRTUAL_PORT_STEP = 0
            THEN Some(VIRTUAL_MIN_ID + diff \div VIRTUAL_PORT_STEP)
            ELSE Null

\* Math.min(Math.max(id, VIRTUAL_MIN_ID), VIRTUAL_MAX_ID)
ClampId(id) == Min(Max(id, VIRTUAL_MIN_ID), VIRTUAL_MAX_ID)

\* const hostRaw = typeof cfg.host === 'string' ? cfg.host.trim() : ''
HostRaw(cfg) == IF Field(cfg, "host").t = "string" THEN Trim(Field(cfg, "host").s) ELSE <<>>

\* if (!nextCfg.connection_type) { nextCfg.connection_type = 'physical'; changed = true }
V3ConnectionType(cfg) ==
    IF ~Truthy(Field(cfg, "connection_type"))
    THEN [cfg |-> WithField(cfg, "connection_type", Str(<<"physical">>)), changed |-> TRUE]
    ELSE [cfg |-> cfg, changed |-> FALSE]

\* if (virtual_host is blank) nextCfg.virtual_host = host
EnsureVirtualHost(cfg, host) ==
    IF BlankHost(Field(cfg, "virtual_host")) THEN WithField(cfg, "virtual_host", Str(host)) ELSE cfg

\* if (!nextCfg.virtual_id) nextCfg.virtual_id = Math.min(Math.max(id, VIRTUAL_MIN_ID), VIRTUAL_MAX_ID)
EnsureVirtualId(cfg, id) ==
    IF ~Truthy(Field(cfg, "virtual_id")) THEN WithField(cfg, "virtual_id", Num(ClampId(id))) ELSE cfg

\* if (isVirtualHost || virtualIdFromPort !== null) { ... }
V3Detected(r, hostRaw, virtualIdFromPort) ==
    IF ToLowerCase(hostRaw) \in VirtualHostNames \/ virtualIdFromPort # Null
    THEN [cfg |-> EnsureVirtualId(
                     EnsureVirtualHost(WithField(r.cfg, "connection_type", Str(<<"virtual">>)),
                                       IF hostRaw # <<>> THEN hostRaw ELSE DEFAULT_VIRTUAL_HOST),
                     OrDefault(virtualIdFromPort, VIRTUAL_MIN_ID)),
          changed |-> TRUE]
    ELSE r

\* a blank virtual_host becomes the default one
V3VirtualHost(r) ==
    IF BlankHost(Field(r.cfg, "virtual_host"))
    THEN [cfg |-> WithField(r.cfg, "virtual_host", Str(DEFAULT_VIRTUAL_HOST)), changed |-> TRUE]
    ELSE r

\* rawId = Number(nextCfg.virtual_id); clampedId = clamp(Number.isFinite(rawId) ? rawId : VIRTUAL_MIN_ID)
ClampedId(v) == ClampId(IF JsNumber(v).nan THEN VIRTUAL_MIN_ID ELSE JsNumber(v).v)

\* if (clampedId !== nextCfg.virtual_id) { nextCfg.virtual_id = clampedId; changed = true }
V3VirtualId(r) ==
    IF Num(ClampedId(Field(r.cfg, "virtual_id"))) # Field(r.cfg, "virtual_id")
    THEN [cfg |-> WithField(r.cfg, "virtual_id", Num(ClampedId(Field(r.cfg, "virtual_id")))), changed |-> TRUE]
    ELSE r

\* if (nextCfg.connection_type === 'virtual') { ... }
V3Virtual(r) ==
    IF Field(r.cfg, "connection_type") = Str(<<"virtual">>) THEN V3VirtualId(V3VirtualHost(r)) ELSE r

\* if (!Number.isFinite(Number(nextCfg.port))) { nextCfg.port = 25003; changed = true }
V3FinitePort(r) ==
    IF JsNumber(Field(r.cfg, "port")).nan
    THEN [cfg |-> WithField(r.cfg, "port", Num(DefaultPort)), changed |-> TRUE]
    ELSE r

\* const cfg = props.config || {}
ConfigOrEmpty(cfgOpt) == IF cfgOpt = Null THEN [f \in {} |-> Undefined] ELSE cfgOpt[1]

\* upgrade script V3: [cfg |-> nextCfg, changed |-> changed]
UpgradeV3Steps(cfgOpt) ==
    V3FinitePort(
      V3Virtual(
        V3Detected(V3ConnectionType(ConfigOrEmpty(cfgOpt)),
                   HostRaw(ConfigOrEmpty(cfgOpt)),
                   VirtualIdFromPort(JsNumber(Field(ConfigOrEmpty(cfgOpt), "port"))))))

\* updatedConfig of V3: null when nothing changed
UpgradeV3(cfgOpt) ==
    LET r == UpgradeV3Steps(cfgOpt) IN IF r.changed THEN Some(r.cfg) ELSE Null

UpgradeLast(script, updated) ==
    [act |-> "upgrade", dom |-> "none", kind |-> script, before |-> config, updated |-> updated]

\* the host runs one upgrade script and stores updatedConfig when there is one
RunUpgrade(script, updated) ==
    /\ config' = IF updated = Null THEN config ELSE updated
    /\ sent' = <<>>
    /\ last' = UpgradeLast(script, updated)
    /\ UNCHANGED <<outputLinkGroupAssign, inputLinkGroupAssign, filterVars, soloVars, accelVars, knobVars,
                   eqVars, gainVars, delayVars>>

(***************************************************************************)
(* actions['output_link_group_assign'] / actions['input_link_group_assign']. *)
(* The callbacks read e.options.chs themselves.                            *)
(***************************************************************************)
\* chNum = Number(ch)
NumberOf(tok) == IF tok.k = "bad" THEN NaN ELSE JsNum(tok.v)

\* if (chNum < 1 || chNum > NUM_OUTPUTS) continue   (both are false of NaN)
LinkSkips(chNum, max) == ~chNum.nan /\ (chNum.v < 1 \/ chNum.v > max)

\* self.outputLinkGroupAssign[chNum] = Number(linkGroup)
LinkAssigned(assign, chNum, group) ==
    {a \in assign : a.ch # chNum} \cup {[ch |-> chNum, group |-> group]}

\* the loop over e.options.chs: every token that is not skipped sends its
\* command and writes its entry
LinkGroupAssign(assign, dom, max, raw, group) ==
    LET F[i \in 0..Len(raw)] ==
            IF i = 0 THEN [assign |-> assign, sent |-> <<>>]
            ELSE LET chNum == NumberOf(raw[i])
                 IN IF LinkSkips(chNum, max) THEN F[i - 1]
                    ELSE [assign |-> LinkAssigned(F[i - 1].assign, chNum, group),
                          sent |-> Append(F[i - 1].sent,
                                          Cmd(<<dom, chNum, "link_group", 0, "assign">>, group))]
    IN F[Len(raw)]

\* what the most recent link group callback was, and how many there were
LinkLast(dom, raw, group) == [act |-> "link_group_assign", dom |-> dom, kind |-> "assign",
                              raw |-> raw, group |-> group, n |-> last.n + 1]

output_link_group_assign(raw, group) ==
    LET r == LinkGroupAssign(outputLinkGroupAssign, "output", NUM_OUTPUTS, raw, group)
    IN /\ outputLinkGroupAssign' = r.assign
       /\ sent' = r.sent
       /\ last' = LinkLast("output", raw, group)
       /\ UNCHANGED <<inputLinkGroupAssign, config, filterVars, soloVars, accelVars, knobVars, eqVars, gainVars,
                      delayVars>>

input_link_group_assign(raw, group) ==
    LET r == LinkGroupAssign(inputLinkGroupAssign, "input", NUM_INPUTS, raw, group)
    IN /\ inputLinkGroupAssign' = r.assign
       /\ sent' = r.sent
       /\ last' = LinkLast("input", raw, group)
       /\ UNCHANGED <<outputLinkGroupAssign, config, filterVars, soloVars, accelVars, knobVars, eqVars, gainVars,
                      delayVars>>

(***************************************************************************)
(* actions['output_allpass_frequency'] / actions['output_allpass_q'].  The *)
(* value goes to _setOutputAllpassFrequency / _setOutputAllpassQ, which    *)
(* send the command and store the value.  Q is kept in hundredths.         *)
(***************************************************************************)
NumAllpassBands == 3
AllpassBands == 1..NumAllpassBands
AllpassQMin == 50
AllpassQMax == 1200

\* nudge: clamp(base + delta) with base the stored value or, when nothing is
\* stored, Number(e.options.<field>) || dflt; value: clamp(value), a value that is
\* not finite skips the channel
AllpassTarget(cur, mode, value, delta, dflt, lo, hi) ==
    IF mode = "nudge"
    THEN LET base == IF cur # Null THEN cur[1]
                     ELSE IF value = Null \/ value = Some(0) THEN dflt ELSE value[1]
         IN Some(ClampTo(base + delta, lo, hi))
    ELSE IF value = Null THEN Null ELSE Some(ClampTo(value[1], lo, hi))

Allpass(store, raw, bandRaw, mode, field, value, delta, dflt, lo, hi) ==
    LET chs == safeGetChannels(raw, NUM_OUTPUTS)
        band == Max(1, Min(NumAllpassBands, bandRaw))
        target == [ch \in Outputs |-> AllpassTarget(store[<<ch, band, field>>], mode, value, delta, dflt, lo, hi)]
        done == SelectSeq(chs, LAMBDA ch : target[ch] # Null)
        written == [k \in {<<ch, band, field>> : ch \in Range(done)} |-> target[k[1]][1]]
    IN [store |-> StoreWritten(store, written),
        sent |-> [i \in 1..Len(done) |->
                    Cmd(<<"output", done[i], "allpass", band, field>>, target[done[i]][1])],
        kind |-> IF chs = <<>> THEN "skip" ELSE mode]

output_allpass_frequency(raw, bandRaw, mode, value, fine) ==
    LET r == Allpass(outputAllpass, raw, bandRaw, mode, "frequency", value,
                     OrDefault(fine, 0), 10000, FreqMin, FreqMax)
    IN /\ outputAllpass' = r.store
       /\ sent' = r.sent
       /\ last' = ParamLast("allpass_frequency", "output", r.kind)
       /\ UNCHANGED <<accelVars, knobVars, outputEQ, inputEQ, outputUShaping, inputUShaping, notKnob>>

\* delta = isCoarse && Number.isFinite(coarse) ? coarse : Number.isFinite(fine) ? fine : 0
AllpassQDelta(isCoarse, fine, coarse) ==
    IF isCoarse /\ coarse # Null THEN coarse[1] ELSE OrDefault(fine, 0)

output_allpass_q(raw, bandRaw, mode, value, isCoarse, fine, coarse) ==
    LET r == Allpass(outputAllpass, raw, bandRaw, mode, "q", value,
                     AllpassQDelta(isCoarse, fine, coarse), 100, AllpassQMin, AllpassQMax)
    IN /\ outputAllpass' = r.store
       /\ sent' = r.sent
       /\ last' = ParamLast("allpass_q", "output", r.kind)
       /\ UNCHANGED <<accelVars, knobVars, outputEQ, inputEQ, outputUShaping, inputUShaping, notKnob>>

(***************************************************************************)
(* actions['output_gain_set'] / actions['input_gain_set'].  Gains are in   *)
(* tenths of a dB.  The gain state of one domain is handled as a record    *)
(* [gain, toggle, prev, fade, sent, applied].                              *)
(***************************************************************************)
GainState(gain, toggle, prev, fade, capture) ==
    [gain |-> gain, toggle |-> toggle, prev |-> prev, fade |-> fade, capture |-> capture,
     sent |-> <<>>, applied |-> <<>>]

\* the jobs of the table that drive the gain of channel ch of a domain
JobsOf(fade, dom, ch) == {j \in fade : j.dom = dom /\ j.ch = ch}

\* mutant: a running job stays in the table when it is superseded
SupersedeMut(fade, dom, ch) == fade

\* a request for a channel with a Running job removes that job (Superseded)
Supersede(fade, dom, ch) == fade \ JobsOf(fade, dom, ch)

\* mutant: a replacement starts from the target of the job it supersedes
FadeStartValueMut(st, dom, ch) ==
    IF JobsOf(st.fade, dom, ch) = {} THEN OrDefault(st.gain[ch], 0)
    ELSE (CHOOSE j \in JobsOf(st.fade, dom, ch) : TRUE).target

\* the start value of a new job is read from the Parameter Store (entries default
\* to the subsystem default, 0 dB)
FadeStartValue(st, dom, ch) == OrDefault(st.gain[ch], 0)

\* _setOutputGain(ch, g): an immediate set stores the value, transmits it once and
\* supersedes a running fade of the channel
SetGain(st, dom, ch, g) ==
    [st EXCEPT !.gain[ch] = Some(g), !.fade = Supersede(@, dom, ch),
               !.sent = Append(@, Cmd(<<dom, ch, "gain">>, g)),
               !.applied = Append(@, <<ch, g>>)]

\* _startOutputGainFade(ch, target, dur, curve): creates or replaces the fade job
StartGainFade(st, dom, ch, g, dur) ==
    [st EXCEPT !.fade = Supersede(@, dom, ch) \cup
                        {[dom |-> dom, ch |-> ch, start |-> FadeStartValue(st, dom, ch),
                          target |-> g, startTime |-> now, dur |-> dur]},
               !.applied = Append(@, <<ch, g>>)]

\* if (dur > 0) _startOutputGainFade(...) else _setOutputGain(...)
ApplyGain(st, dom, ch, g, dur) ==
    IF dur > 0 THEN StartGainFade(st, dom, ch, g, dur) ELSE SetGain(st, dom, ch, g)

CaptureWindowMs == 300

\* _beginPrevCaptureWindow(domain, ch, btnId, 300): arms a capture for the key
BeginPrevCaptureWindow(st, ch, windowMs) == [st EXCEPT !.capture[ch] = Some(now + windowMs)]

\* mutant: a capture lands whether or not a window is open
InCaptureWindowMut(capture, ch, t) == TRUE

\* a capture window of the key is armed and has not ended at time t
InCaptureWindow(capture, ch, t) == capture[ch] # Null /\ t <= capture[ch][1]

\* _rememberPrevOutputGain(ch, btnId): the current value becomes the previous value
\* when the call lands inside the capture window, and is a no-op outside it
RememberPrev(st, ch) ==
    IF InCaptureWindow(st.capture, ch, now) THEN [st EXCEPT !.prev[ch] = st.gain[ch]] ELSE st

\* the two calls every changing mode makes before it applies the target
CapturePrev(st, ch) == RememberPrev(BeginPrevCaptureWindow(st, ch, CaptureWindowMs), ch)

\* mutant: the toggle forgets that A was applied
PairLastWasAMut(toggle, ch) == FALSE

\* lastWasA = self._outputGainToggle[ch] === 'A'
PairLastWasA(toggle, ch) == toggle[ch] = Some("A")

\* mutant: a channel without a recorded value is recalled to the default 0 dB
LastStepMut(st, dom, ch, dur) == ApplyGain(st, dom, ch, OrDefault(st.prev[ch], 0), dur)

\* one iteration of the loop of mode 'last': if (prev == null) continue
LastStep(st, dom, ch, dur) ==
    IF st.prev[ch] = Null THEN st ELSE ApplyGain(st, dom, ch, st.prev[ch][1], dur)

\* mutant: the changing modes capture after they have applied the target
GainStepMut(st, dom, ch, mode, opt, dur) ==
    CASE mode = "last" -> LastStep(st, dom, ch, dur)
      [] mode = "nudge" ->
           CapturePrev(SetGain(st, dom, ch, OrDefault(st.gain[ch], 0) + opt.delta), ch)
      [] mode = "pair" ->
           LET lastWasA == PairLastWasA(st.toggle, ch)
               targetGain == IF lastWasA THEN opt.gain_b ELSE opt.gain_a
               st1 == [st EXCEPT !.toggle[ch] = Some(IF lastWasA THEN "B" ELSE "A")]
           IN CapturePrev(ApplyGain(st1, dom, ch, targetGain, dur), ch)
      [] OTHER ->
           CapturePrev(ApplyGain(st, dom, ch, opt.gain, dur), ch)

\* one iteration of the loop of the selected mode
GainStep(st, dom, ch, mode, opt, dur) ==
    CASE mode = "last" -> LastStep(st, dom, ch, dur)
      [] mode = "nudge" ->
           LET base == OrDefault(st.gain[ch], 0)
           IN SetGain(CapturePrev(st, ch), dom, ch, base + opt.delta)
      [] mode = "pair" ->
           LET lastWasA == PairLastWasA(st.toggle, ch)
               targetGain == IF lastWasA THEN opt.gain_b ELSE opt.gain_a
               st1 == [st EXCEPT !.toggle[ch] = Some(IF lastWasA THEN "B" ELSE "A")]
           IN ApplyGain(CapturePrev(st1, ch), dom, ch, targetGain, dur)
      [] OTHER ->
           ApplyGain(CapturePrev(st, ch), dom, ch, opt.gain, dur)

GainCallback(st, dom, n, raw, mode, opt, dur) ==
    LET chs == safeGetChannels(raw, n)
        F[i \in 0..Len(chs)] ==
            IF i = 0 THEN st ELSE GainStep(F[i - 1], dom, chs[i], mode, opt, dur)
    IN F[Len(chs)]

\* mutant: a negative duration counts by its magnitude
GainDurMut(fadeMs) == IF fadeMs = Null THEN 0 ELSE Abs(fadeMs[1])

\* dur = Math.max(0, Number(e.options.fadeMs) || 0); the option is <<>> when it
\* is not a number
GainDur(fadeMs) == Max(0, OrDefault(fadeMs, 0))

GainLast(dom, n, raw, mode, toggle, r, fadeMs) ==
    [act |-> "gain", dom |-> dom,
     kind |-> IF safeGetChannels(raw, n) = <<>> THEN "skip" ELSE mode,
     applied |-> r.applied,
     before |-> IF mode = "pair" THEN toggle ELSE <<>>,
     fadeMs |-> fadeMs, chs |-> safeGetChannels(raw, n)]

output_gain_set(raw, mode, opt, fadeMs) ==
    LET r == GainCallback(GainState(outputGain, outputGainToggle, gainPrev.output, gainFade,
                                    prevCapture.output),
                          "output", NUM_OUTPUTS, raw, mode, opt, GainDur(fadeMs))
    IN /\ outputGain' = r.gain
       /\ outputGainToggle' = r.toggle
       /\ gainPrev' = [gainPrev EXCEPT !.output = r.prev]
       /\ prevCapture' = [prevCapture EXCEPT !.output = r.capture]
       /\ gainFade' = r.fade
       /\ sent' = r.sent
       /\ last' = GainLast("output", NUM_OUTPUTS, raw, mode, outputGainToggle, r, fadeMs)
       /\ UNCHANGED <<inputGain, inputGainToggle, matrixGain, connected, notGain>>

input_gain_set(raw, mode, opt, fadeMs) ==
    LET r == GainCallback(GainState(inputGain, inputGainToggle, gainPrev.input, gainFade,
                                    prevCapture.input),
                          "input", NUM_INPUTS, raw, mode, opt, GainDur(fadeMs))
    IN /\ inputGain' = r.gain
       /\ inputGainToggle' = r.toggle
       /\ gainPrev' = [gainPrev EXCEPT !.input = r.prev]
       /\ prevCapture' = [prevCapture EXCEPT !.input = r.capture]
       /\ gainFade' = r.fade
       /\ sent' = r.sent
       /\ last' = GainLast("input", NUM_INPUTS, raw, mode, inputGainToggle, r, fadeMs)
       /\ UNCHANGED <<outputGain, outputGainToggle, matrixGain, connected, notGain>>

(***************************************************************************)
(* Delay: actions['output_delay_set'], actions['input_delay_set'],         *)
(* actions['matrix_delay_full'].  A delay option value is a number of      *)
(* hundredths of its unit (the option's step is 0.01) or <<>> when it is   *)
(* not finite; a time is a fraction num / den of hundredths of a           *)
(* millisecond, computed exactly.                                          *)
(***************************************************************************)
SPEED_FT_PER_SEC == 1125
SPEED_M_PER_SEC == 343
SamplesPerMs == 96

Frac(num, den) == [num |-> num, den |-> den]

\* valueToMs(val, typeKey), times 100
valueToMs(val, typeKey) ==
    IF val = Null THEN Frac(0, 1)
    ELSE CASE typeKey = "1" -> Frac(val[1] * 1000, SPEED_FT_PER_SEC)
           [] typeKey = "2" -> Frac(val[1] * 1000, SPEED_M_PER_SEC)
           [] typeKey = "3" -> Frac(val[1] * 1000, 24)
           [] typeKey = "4" -> Frac(val[1] * 1000, 25)
           [] typeKey = "5" -> Frac(val[1] * 1000, 30)
           [] typeKey = "6" -> Frac(val[1], SamplesPerMs)
           [] OTHER -> Frac(val[1], 1)

\* mutant: the upper end of the range is not enforced
clampMut(v, lo, hi) == IF v.num < lo * 100 * v.den THEN Frac(lo * 100, 1) ELSE v

\* clamp(v, lo, hi) with lo and hi in milliseconds
clamp(v, lo, hi) ==
    IF v.num < lo * 100 * v.den THEN Frac(lo * 100, 1)
    ELSE IF v.num > hi * 100 * v.den THEN Frac(hi * 100, 1)
    ELSE v

\* Math.round of a non-negative fraction: the nearest integer, halves upwards
MathRound(v) == (2 * v.num + v.den) \div (2 * v.den)

\* roundTo01(v) = Math.round(v / 0.01) * 0.01, as a number of hundredths of a ms
roundTo01(v) == MathRound(v)

\* mutant: the sample count is rounded up
SamplesOfMut(targetMs) == (targetMs * SamplesPerMs + 99) \div 100

\* samples = Math.round(targetMs * 96)
SamplesOf(targetMs) == MathRound(Frac(targetMs * SamplesPerMs, 100))

\* targetMs = roundTo01(clamp(valueToMs(valueRaw, typeId), 0, maxMs))
TargetMs(val, typeId, maxMs) == roundTo01(clamp(valueToMs(val, typeId), 0, maxMs))

\* mutant: an 'unchanged' unit is treated as milliseconds
DelaySkipsMut(typeId) == FALSE

\* if (typeId === 'unchanged') continue
DelaySkips(typeId) == typeId = "unchanged"

\* the loop of the input and output delay actions; _setOutputDelayMs(ch, targetMs)
\* transmits the sample count and mirrors it, as the fallback branch does
DelayCallback(dom, n, delay, raw, typeId, val, maxMs) ==
    LET chs == safeGetChannels(raw, n)
        samples == SamplesOf(TargetMs(val, typeId, maxMs))
        hit == IF DelaySkips(typeId) THEN {} ELSE Range(chs)
    IN [delay |-> [ch \in DOMAIN delay |-> IF ch \in hit THEN Some(samples) ELSE delay[ch]],
        sent |-> IF DelaySkips(typeId) THEN <<>>
                 ELSE [i \in 1..Len(chs) |-> Cmd(<<dom, chs[i], "delay">>, samples)]]

DelayLast(dom, empty, typeId, val, maxMs, statusMode) ==
    [act |-> "delay", dom |-> dom, status |-> statusMode,
     kind |-> IF empty THEN "skip" ELSE IF typeId = "unchanged" THEN "unchanged" ELSE "set",
     type |-> typeId, value |-> val,
     ms |-> IF typeId = "unchanged" THEN 0 ELSE TargetMs(val, typeId, maxMs)]

output_delay_set(raw, typeId, val) ==
    LET r == DelayCallback("output", NUM_OUTPUTS, outputDelay, raw, typeId, val, 2000)
    IN /\ outputDelay' = r.delay
       /\ sent' = r.sent
       /\ last' = DelayLast("output", safeGetChannels(raw, NUM_OUTPUTS) = <<>>, typeId, val, 2000, "none")
       /\ UNCHANGED <<inputDelay, matrixDelay, notDelay>>

input_delay_set(raw, typeId, val) ==
    LET r == DelayCallback("input", NUM_INPUTS, inputDelay, raw, typeId, val, 500)
    IN /\ inputDelay' = r.delay
       /\ sent' = r.sent
       /\ last' = DelayLast("input", safeGetChannels(raw, NUM_INPUTS) = <<>>, typeId, val, 500, "none")
       /\ UNCHANGED <<outputDelay, matrixDelay, notDelay>>

\* the cross points in the order of `for (const i of inputs) for (const o of outs)`
CrossPoints(inputs, outs) ==
    [k \in 1..(Len(inputs) * Len(outs)) |->
        <<inputs[((k - 1) \div Len(outs)) + 1], outs[((k - 1) % Len(outs)) + 1]>>]

\* newState of the bypass block
MatrixNewBypass(cur, statusMode) ==
    IF statusMode = "toggle" THEN ~(cur.bypass = Some(TRUE)) ELSE statusMode = "off"

\* what one cross point stores and sends
MatrixDelayPoint(cur, pt, typeId, samples, statusMode) ==
    LET typed == IF DelaySkips(typeId) THEN cur
                 ELSE [cur EXCEPT !.type = Some(typeId), !.samples = Some(samples)]
        new == IF statusMode = "unchanged" THEN typed
               ELSE [typed EXCEPT !.bypass = Some(MatrixNewBypass(cur, statusMode))]
        path == <<"matrix", pt[1], pt[2]>>
    IN [new |-> new,
        sent |-> (IF DelaySkips(typeId) THEN <<>>
                  ELSE <<Cmd(Append(path, "delay_type"), typeId), Cmd(Append(path, "delay"), samples)>>)
                 \o (IF statusMode = "unchanged" THEN <<>>
                     ELSE <<Cmd(Append(path, "delay_bypass"), new.bypass[1])>>)]

matrix_delay_full(rawIn, rawOut, typeId, val, statusMode) ==
    LET inputs == safeGetChannels(rawIn, NUM_MATRIX_INPUTS)
        outs == safeGetChannels(rawOut, NUM_OUTPUTS)
        empty == inputs = <<>> \/ outs = <<>>
        pts == IF empty THEN <<>> ELSE CrossPoints(inputs, outs)
        samples == SamplesOf(TargetMs(val, typeId, 500))
        pt(k) == MatrixDelayPoint(matrixDelay[k], k, typeId, samples, statusMode)
        S[i \in 0..Len(pts)] == IF i = 0 THEN <<>> ELSE S[i - 1] \o pt(pts[i]).sent
    IN /\ matrixDelay' = [k \in DOMAIN matrixDelay |->
                             IF k \in Range(pts) THEN pt(k).new ELSE matrixDelay[k]]
       /\ sent' = S[Len(pts)]
       /\ last' = DelayLast("matrix", empty, typeId, val, 500, statusMode)
       /\ UNCHANGED <<inputDelay, outputDelay, notDelay>>

(***************************************************************************)
(* Matrix gain: actions['matrix_gain'].  The helpers it calls              *)
(* (_setMatrixGainMulti, _startMatrixGainFadeMulti, _nudgeMatrixGainMulti) *)
(* act on every cross point (i, o) of one input as _setOutputGain and      *)
(* _startOutputGainFade act on a channel.                                  *)
(***************************************************************************)
MatrixGainMin == -900
MatrixGainMax == 200

\* _nudgeMatrixGainMulti(i, outs, d) at one cross point: an immediate set of the
\* stored gain plus d, kept within the matrix gain range
NudgeMatrixGain(st, pt, d) ==
    SetGain(st, "matrix", pt, Max(MatrixGainMin, Min(MatrixGainMax, OrDefault(st.gain[pt], 0) + d)))

\* the callback of matrix_gain; mode is already one of set, nudge, minus6
MatrixGainCallback(st, rawIn, rawOut, mode, opt, fadeMs) ==
    LET inputs == safeGetChannels(rawIn, NUM_MATRIX_INPUTS)
        outs == safeGetChannels(rawOut, NUM_OUTPUTS)
        pts == IF inputs = <<>> \/ outs = <<>> THEN <<>> ELSE CrossPoints(inputs, outs)
        targetGain == IF mode = "minus6" THEN -60 ELSE opt.gain
        dur == IF mode = "minus6" THEN 0 ELSE GainDur(fadeMs)
        F[k \in 0..Len(pts)] ==
            IF k = 0 THEN st
            ELSE IF mode = "nudge" THEN NudgeMatrixGain(F[k - 1], pts[k], opt.delta)
            ELSE ApplyGain(F[k - 1], "matrix", pts[k], targetGain, dur)
    IN F[Len(pts)]

MatrixGainLast(rawIn, rawOut, mode, r, fadeMs) ==
    [act |-> "gain", dom |-> "matrix",
     kind |-> IF safeGetChannels(rawIn, NUM_MATRIX_INPUTS) = <<>> \/ safeGetChannels(rawOut, NUM_OUTPUTS) = <<>>
              THEN "skip" ELSE mode,
     applied |-> r.applied, before |-> <<>>, fadeMs |-> fadeMs]

matrix_gain(rawIn, rawOut, mode, opt, fadeMs) ==
    LET r == MatrixGainCallback(GainState(matrixGain, <<>>, <<>>, gainFade, <<>>),
                                rawIn, rawOut, mode, opt, fadeMs)
    IN /\ matrixGain' = r.gain
       /\ gainFade' = r.fade
       /\ sent' = r.sent
       /\ last' = MatrixGainLast(rawIn, rawOut, mode, r, fadeMs)
       /\ UNCHANGED <<outputGain, inputGain, outputGainToggle, inputGainToggle, gainPrev, prevCapture,
                      connected, notGain>>

(***************************************************************************)
(* Fade Engine (section 4.3 and 5 of the specification): one shared        *)
(* periodic ticker advances every job of the table; Device Link reports    *)
(* connected / disconnected.  Only the linear curve is computed.           *)
(***************************************************************************)
FadeTickMs == 200

\* mutant: a job never reaches its end
FadeDoneMut(j, t) == FALSE

\* t >= duration: the job is Completed
FadeDone(j, t) == t - j.startTime >= j.dur

\* mutant: the last step extrapolates instead of sending the target
FadeValueMut(j, t) == j.start + ((j.target - j.start) * (t - j.startTime)) \div j.dur

\* linear curve: start + (target - start) * (t / duration), the exact target once
\* t >= duration
FadeValue(j, t) ==
    IF FadeDone(j, t) THEN j.target
    ELSE j.start + ((j.target - j.start) * (t - j.startTime)) \div j.dur

\* the jobs of a table in the order the ticker visits them
JobSeq(fade) ==
    LET F[T \in SUBSET fade] ==
            IF T = {} THEN <<>>
            ELSE LET j == CHOOSE x \in T : TRUE IN Append(F[T \ {j}], j)
    IN F[fade]

\* the value each tick writes to the Parameter Store of a domain
TickStore(gain, dom, fade, t) ==
    [ch \in DOMAIN gain |->
        IF JobsOf(fade, dom, ch) = {} THEN gain[ch]
        ELSE Some(FadeValue(CHOOSE j \in JobsOf(fade, dom, ch) : TRUE, t))]

\* ... and to Device Link
TickCmds(fade, t) ==
    LET jobs == JobSeq(fade)
    IN [i \in 1..Len(jobs) |-> Cmd(<<jobs[i].dom, jobs[i].ch, "gain">>, FadeValue(jobs[i], t))]

\* a Completed job releases its slot
TickJobs(fade, t) == {j \in fade : ~FadeDone(j, t)}

\* one tick of the shared ticker at time t
FadeTickAt(t) ==
    /\ now' = t
    /\ outputGain' = TickStore(outputGain, "output", gainFade, t)
    /\ inputGain' = TickStore(inputGain, "input", gainFade, t)
    /\ matrixGain' = TickStore(matrixGain, "matrix", gainFade, t)
    /\ gainFade' = TickJobs(gainFade, t)
    /\ sent' = TickCmds(gainFade, t)
    /\ last' = [act |-> "tick", dom |-> "none", kind |-> "tick",
                completed |-> {j \in gainFade : FadeDone(j, t)}]
    /\ UNCHANGED <<soloVars, rotaryAccel, knobVars, eqVars, delayVars, filterVars, linkVars, outputGainToggle,
                   inputGainToggle, gainPrev, prevCapture, connected>>

\* mutant: the jobs survive a disconnection
CancelAllMut(fade) == fade

\* disconnection cancels every active job
CancelAll(fade) == {}

\* Device Link reports disconnected: Running -> Canceled, nothing is transmitted
LinkDisconnected ==
    /\ connected
    /\ connected' = FALSE
    /\ gainFade' = CancelAll(gainFade)
    /\ sent' = <<>>
    /\ last' = [act |-> "disconnect", dom |-> "none", kind |-> "link", canceled |-> gainFade]
    /\ UNCHANGED <<outputGain, inputGain, outputGainToggle, inputGainToggle, gainPrev, prevCapture,
                   matrixGain, notGain>>

\* Device Link reports connected: no job is created or resumed
LinkConnected ==
    /\ ~connected
    /\ connected' = TRUE
    /\ sent' = <<>>
    /\ last' = [act |-> "connect", dom |-> "none", kind |-> "link", canceled |-> {}]
    /\ UNCHANGED <<outputGain, inputGain, outputGainToggle, inputGainToggle, gainPrev, prevCapture,
                   matrixGain, gainFade, notGain>>

\* _rememberPrevOutputGain(ch, btnId) / _rememberPrevInputGain(ch, btnId) called
\* on its own, without a capture window being armed first
remember_prev_gain(dom, ch) ==
    LET st == GainState(IF dom = "input" THEN inputGain ELSE outputGain, <<>>, gainPrev[dom],
                        gainFade, prevCapture[dom])
    IN /\ gainPrev' = [gainPrev EXCEPT ![dom] = RememberPrev(st, ch).prev]
       /\ sent' = <<>>
       /\ last' = [act |-> "remember", dom |-> dom, kind |-> "remember", ch |-> ch]
       /\ UNCHANGED <<outputGain, inputGain, outputGainToggle, inputGainToggle, prevCapture,
                      matrixGain, connected, gainFade, notGain>>

(***************************************************************************)
(* actions['output_hf_attenuation']: the log-shaped HF shading of U-Shaping *)
(* band 5 across consecutive outputs.  n is NUM_OUTPUTS, the span option   *)
(* (ratio) is in tenths of a dB.                                           *)
(***************************************************************************)
\* Math.log(k) for k = 1..8, times 10^6
LnMicro == <<0, 693147, 1098612, 1386294, 1609438, 1791759, 1945910, 2079442>>

\* start = Math.max(1, Math.min(NUM_OUTPUTS, Math.round(Number(start_output) || 1)))
HfStart(n, startOpt) ==
    LET raw == IF startOpt = Null \/ startOpt = Some(0) THEN 1 ELSE startOpt[1]
    IN Max(1, Min(n, raw))

\* total = finite ? Math.round(totalRaw) : NUM_OUTPUTS, then
\* Math.max(1, Math.min(total, NUM_OUTPUTS - start + 1))
HfTotal(n, start, totalOpt) == Max(1, Min(OrDefault(totalOpt, n), n - start + 1))

\* span = Math.max(1, Math.ceil(total / 2))
HfSpan(total) == Max(1, (total + 1) \div 2)

\* logBase = Math.log(span); !Number.isFinite(logBase) || logBase <= 0
HfRefuses(span) == LnMicro[span] <= 0

\* totalSwing = Math.max(0.1, Math.min(24, finite ? ratioRaw : 8))
HfSwing(ratioOpt) == Max(1, Min(240, OrDefault(ratioOpt, 80)))

\* mutant: the negative half swings as far as the positive half
HfDbMut(boxIndex, span, swing) ==
    LET logBase == LnMicro[span]
    IN IF logBase = 0 THEN "NaN"
       ELSE IF boxIndex <= span
            THEN MathRound(Frac(swing * (logBase - LnMicro[boxIndex]), 3 * logBase))
            ELSE LET j == Max(1, 2 * span - boxIndex + 1)
                 IN MathRound(Frac((-swing) * (logBase - LnMicro[j]), 3 * logBase))

\* db = roundTenth(rawDb), in tenths of a dB: posMax * (1 - ln(boxIndex) / logBase) in
\* the first half, -negMax * (logBase - ln(j)) / logBase in the second, with
\* posMax = totalSwing / 3 and negMax = totalSwing * 2 / 3; a division by a
\* logBase of 0 gives NaN
HfDb(boxIndex, span, swing) ==
    LET logBase == LnMicro[span]
    IN IF logBase = 0 THEN "NaN"
       ELSE IF boxIndex <= span
            THEN MathRound(Frac(swing * (logBase - LnMicro[boxIndex]), 3 * logBase))
            ELSE LET j == Max(1, 2 * span - boxIndex + 1)
                 IN MathRound(Frac((-2) * swing * (logBase - LnMicro[j]), 3 * logBase))

\* band4Frequency = 8000, in hundredths of a Hz, and band4Slope = 1, in tenths
HfBand4Frequency == 800000
HfBand4Slope == 10

\* mutant: the curve is laid out from the far end of the array
HfWritesMut(start, total, span, swing) ==
    LET chs == start..(start + total - 1)
    IN [k \in {<<ch, 4, "frequency">> : ch \in chs} \cup {<<ch, 4, "slope">> : ch \in chs}
              \cup {<<ch, UShapingHfBand, "gain">> : ch \in chs} |->
          IF k[3] = "frequency" THEN HfBand4Frequency
          ELSE IF k[3] = "slope" THEN HfBand4Slope
          ELSE HfDb(total - (k[1] - start), span, swing)]

\* what the loop writes: band 4 frequency and slope and band 5 gain of the
\* outputs start .. start + total - 1
HfWrites(start, total, span, swing) ==
    LET chs == start..(start + total - 1)
    IN [k \in {<<ch, 4, "frequency">> : ch \in chs} \cup {<<ch, 4, "slope">> : ch \in chs}
              \cup {<<ch, UShapingHfBand, "gain">> : ch \in chs} |->
          IF k[3] = "frequency" THEN HfBand4Frequency
          ELSE IF k[3] = "slope" THEN HfBand4Slope
          ELSE HfDb(k[1] - start + 1, span, swing)]

\* mutant: the span is tested after band 4 was written and sent
HfAttenuationMut(n, store, startOpt, totalOpt, ratioOpt) ==
    LET start == HfStart(n, startOpt)
        total == HfTotal(n, start, totalOpt)
        span == HfSpan(total)
        swing == HfSwing(ratioOpt)
        written == HfWrites(start, total, span, swing)
        band4 == [k \in {j \in DOMAIN written : j[2] = 4} |-> written[k]]
        band4Of == [i \in 1..total |->
                      LET ch == start + i - 1
                      IN <<UShapingCmd("output", ch, 4, "frequency", written[<<ch, 4, "frequency">>]),
                           UShapingCmd("output", ch, 4, "slope", written[<<ch, 4, "slope">>])>>]
        cmdsOf == [i \in 1..total |->
                     band4Of[i] \o <<UShapingCmd("output", start + i - 1, UShapingHfBand, "gain",
                                                written[<<start + i - 1, UShapingHfBand, "gain">>])>>]
    IN IF HfRefuses(span)
       THEN [store |-> StoreWritten(store, band4),
             sent |-> Flatten([i \in 1..total |-> i], 2, band4Of),
             kind |-> "refused", start |-> start, total |-> total, swing |-> swing]
       ELSE [store |-> StoreWritten(store, written),
             sent |-> Flatten([i \in 1..total |-> i], 3, cmdsOf),
             kind |-> "applied", start |-> start, total |-> total, swing |-> swing]

HfAttenuation(n, store, startOpt, totalOpt, ratioOpt) ==
    LET start == HfStart(n, startOpt)
        total == HfTotal(n, start, totalOpt)
        span == HfSpan(total)
        swing == HfSwing(ratioOpt)
        written == HfWrites(start, total, span, swing)
        cmdsOf == [i \in 1..total |->
                     LET ch == start + i - 1
                     IN <<UShapingCmd("output", ch, 4, "frequency", written[<<ch, 4, "frequency">>]),
                          UShapingCmd("output", ch, 4, "slope", written[<<ch, 4, "slope">>]),
                          UShapingCmd("output", ch, UShapingHfBand, "gain",
                                      written[<<ch, UShapingHfBand, "gain">>])>>]
    IN IF HfRefuses(span)
       THEN [store |-> store, sent |-> <<>>, kind |-> "refused", start |-> start, total |-> total,
             swing |-> swing]
       ELSE [store |-> StoreWritten(store, written),
             sent |-> Flatten([i \in 1..total |-> i], 3, cmdsOf),
             kind |-> "applied", start |-> start, total |-> total, swing |-> swing]

output_hf_attenuation(n, startOpt, totalOpt, ratioOpt) ==
    LET r == HfAttenuation(n, outputUShaping, startOpt, totalOpt, ratioOpt)
    IN /\ outputUShaping' = r.store
       /\ sent' = r.sent
       /\ last' = [act |-> "hf_attenuation", dom |-> "output", kind |-> r.kind, start |-> r.start,
                   total |-> r.total, swing |-> r.swing,
                   n |-> IF "n" \in DOMAIN last THEN last.n + 1 ELSE 1]
       /\ UNCHANGED <<accelVars, knobVars, outputEQ, inputEQ, inputUShaping, outputAllpass, notKnob>>

(***************************************************************************)
(* Initial states.                                                         *)
(***************************************************************************)
InitLast == [act |-> "init", dom |-> "none", kind |-> "none", op |-> "none", set |-> {}, n |-> 0]

Domains == {"input", "output"}

\* nothing is soloed after construction; the mute flags mirror what the device reports
InitSolo ==
    /\ inMute \in IF focus = "input" THEN [Inputs -> BOOLEAN] ELSE {[ch \in Inputs |-> FALSE]}
    /\ outMute \in IF focus = "output" THEN [Outputs -> BOOLEAN] ELSE {[ch \in Outputs |-> FALSE]}
    /\ inputSoloState = Null
    /\ outputSoloState = Null
    /\ preSolo = [d \in Domains |-> IF d = "input" THEN inMute ELSE outMute]

\* nothing is soloed and nothing is muted
InitUnmuted ==
    /\ inMute = [ch \in Inputs |-> FALSE]
    /\ outMute = [ch \in Outputs |-> FALSE]
    /\ inputSoloState = Null
    /\ outputSoloState = Null
    /\ preSolo = [d \in Domains |-> IF d = "input" THEN inMute ELSE outMute]

\* Date.now() is far beyond one acceleration window; no knob has turned yet
InitAccel ==
    /\ now = 10 * AccelWindowMs
    /\ rotaryAccel = [k \in AccelKeys |-> Null]

NoControl == [selected |-> Null, selectedBand |-> Null]

InitKnob ==
    /\ eqKnobControlOutput = NoControl
    /\ eqKnobControl = NoControl
    /\ ushapingKnobControlOutput = NoControl
    /\ ushapingKnobControl = NoControl

EqFields == {"gain", "frequency", "bandwidth"}
UShapingFields == {"gain", "frequency", "slope"}
AllpassFields == {"frequency", "q"}

\* the stores are filled lazily: nothing is stored yet
InitEq ==
    /\ outputEQ = [k \in Outputs \X Bands \X EqFields |-> Null]
    /\ inputEQ = [k \in Inputs \X Bands \X EqFields |-> Null]
    /\ outputUShaping = [k \in Outputs \X UShapingBands \X UShapingFields |-> Null]
    /\ inputUShaping = [k \in Inputs \X UShapingBands \X UShapingFields |-> Null]
    /\ outputAllpass = [k \in Outputs \X AllpassBands \X AllpassFields |-> Null]

\* no gain is known, nothing was toggled, remembered or faded yet
InitGain ==
    /\ outputGain = [ch \in Outputs |-> Null]
    /\ inputGain = [ch \in Inputs |-> Null]
    /\ outputGainToggle = [ch \in Outputs |-> Null]
    /\ inputGainToggle = [ch \in Inputs |-> Null]
    /\ gainPrev = [d \in Domains |-> [ch \in (IF d = "input" THEN Inputs ELSE Outputs) |-> Null]]
    /\ prevCapture = [d \in Domains |-> [ch \in (IF d = "input" THEN Inputs ELSE Outputs) |-> Null]]
    /\ matrixGain = [p \in MatrixInputs \X Outputs |-> Null]
    /\ connected = TRUE
    /\ gainFade = {}

NoMatrixDelay == [type |-> Null, samples |-> Null, bypass |-> Null]

InitDelay ==
    /\ outputDelay = [ch \in Outputs |-> Null]
    /\ inputDelay = [ch \in Inputs |-> Null]
    /\ matrixDelay = [k \in MatrixInputs \X Outputs |-> NoMatrixDelay]

\* self._rotaryPressState = {}
NoPress == [k \in {} |-> TRUE]

InitFilter ==
    /\ outputHighpass = [ch \in Outputs |-> Null]
    /\ outputLowpass = [ch \in Outputs |-> Null]
    /\ rotaryPressState = NoPress

InitLink ==
    /\ outputLinkGroupAssign = {}
    /\ inputLinkGroupAssign = {}
    /\ config = Null

InitObs ==
    /\ sent = <<>>
    /\ last = InitLast

(***************************************************************************)
(* Solo and mute callbacks.  The input callbacks read and write only the   *)
(* input state (inMute, inputSoloState) and the output callbacks only the  *)
(* output state, so a behaviour is an interleaving of an input-only and an *)
(* output-only behaviour.  Each behaviour of this specification exercises  *)
(* the callbacks of one domain, chosen at the start; together they cover   *)
(* every state a domain can reach.                                         *)
(***************************************************************************)
InitSoloSpec ==
    /\ focus \in Domains
    /\ InitSolo /\ InitAccel /\ InitKnob /\ InitEq /\ InitGain /\ InitDelay /\ InitFilter /\ InitLink /\ InitObs

SelOut == Selections(NUM_OUTPUTS)
SelIn == Selections(NUM_INPUTS)

OutputSolo ==
    /\ focus = "output"
    /\ \E op \in Ops, raw \in SelOut : output_solo(op, raw)
    /\ UNCHANGED focus

InputSolo ==
    /\ focus = "input"
    /\ \E op \in Ops, raw \in SelIn : input_solo(op, raw)
    /\ UNCHANGED focus

OutputMute ==
    /\ focus = "output"
    /\ \E op \in Ops, raw \in SelOut : output_mute_control(op, raw)
    /\ UNCHANGED focus

InputMute ==
    /\ focus = "input"
    /\ \E op \in Ops, raw \in SelIn : input_mute_control(op, raw)
    /\ UNCHANGED focus

NextSolo == OutputSolo \/ InputSolo \/ OutputMute \/ InputMute

SpecSolo == InitSoloSpec /\ [][NextSolo]_vars

(***************************************************************************)
(* Accelerated knobs.  Knobs of different parameters share no state, so a  *)
(* behaviour exercises the knobs of one parameter, turned from one surface *)
(* or pressed.  The input and the output U-Shaping slope knob use the same *)
(* acceleration key.                                                       *)
(***************************************************************************)
\* the knob selection is the default one or every output
KnobSelections == {Null, Some(SetToSeq(Outputs))}

InitAccelSpec ==
    /\ focus \in AccelNames
    /\ InitUnmuted /\ InitAccel /\ InitEq /\ InitGain /\ InitDelay /\ InitFilter /\ InitLink /\ InitObs
    /\ eqKnobControlOutput \in
         IF focus = "eq_bw" THEN {[selected |-> x, selectedBand |-> Null] : x \in KnobSelections}
         ELSE {NoControl}
    /\ eqKnobControl = NoControl
    /\ ushapingKnobControlOutput \in
         IF focus = "ushaping_slope" THEN {[selected |-> x, selectedBand |-> Null] : x \in KnobSelections}
         ELSE {NoControl}
    /\ ushapingKnobControl = NoControl

OutputEqKnobBandwidth ==
    /\ focus = "eq_bw"
    /\ \E surf \in KnobSurfaces("eq_bw"), d \in {-1, 1} : output_eq_knob_bandwidth(surf, d)
    /\ UNCHANGED focus

OutputUShapingKnobSlope ==
    /\ focus = "ushaping_slope"
    /\ \E surf \in KnobSurfaces("ushaping_slope"), dir \in {"up", "down"} : output_ushaping_knob_slope(surf, dir)
    /\ UNCHANGED focus

InputUShapingKnobSlope ==
    /\ focus = "ushaping_slope"
    /\ \E surf \in KnobSurfaces("ushaping_slope"), dir \in {"up", "down"} : input_ushaping_knob_slope(surf, dir)
    /\ UNCHANGED focus

NextAccel ==
    \/ Tick
    \/ OutputEqKnobBandwidth
    \/ OutputUShapingKnobSlope
    \/ InputUShapingKnobSlope

SpecAccel == InitAccelSpec /\ [][NextAccel]_vars

(***************************************************************************)
(* Gain actions.  A behaviour presses gain buttons of one domain that are  *)
(* all configured with the same fade duration.                             *)
(***************************************************************************)
FadeDurations == {0, 500}

InitGainSpec ==
    /\ focus \in Domains \X FadeDurations
    /\ InitUnmuted /\ InitAccel /\ InitKnob /\ InitEq /\ InitGain /\ InitDelay /\ InitFilter /\ InitLink /\ InitObs

\* the options of a button: the configured pair is 0 dB / -6 dB, the specific
\* value -6 dB and the nudge 6 dB either way
GainOptions(mode) ==
    {[gain |-> -60, gain_a |-> 0, gain_b |-> -60, delta |-> d] :
        d \in IF mode = "nudge" THEN {-60, 60} ELSE {0}}
GainModes == {"value", "last", "pair", "nudge"}

\* the mirrored gains stay within the range the buttons above can reach
GainRange == -60..0

GainSelections(n) == {SetToRaw(S) : S \in SUBSET (1..n)}
GainSelOut == GainSelections(NUM_OUTPUTS)
GainSelIn == GainSelections(NUM_INPUTS)
\* no matrix input or all of them
SelMatrixIn == {<<>>, SetToRaw(MatrixInputs)}

NudgeInRange(gain, raw, n, mode, opt) ==
    mode = "nudge" =>
        \A ch \in Range(safeGetChannels(raw, n)) : OrDefault(gain[ch], 0) + opt.delta \in GainRange

OutputGainSet ==
    /\ focus[1] = "output"
    /\ \E raw \in GainSelOut, mode \in GainModes : \E opt \in GainOptions(mode) :
          /\ NudgeInRange(outputGain, raw, NUM_OUTPUTS, mode, opt)
          /\ output_gain_set(raw, mode, opt, Some(focus[2]))
    /\ UNCHANGED focus

InputGainSet ==
    /\ focus[1] = "input"
    /\ \E raw \in GainSelIn, mode \in GainModes : \E opt \in GainOptions(mode) :
          /\ NudgeInRange(inputGain, raw, NUM_INPUTS, mode, opt)
          /\ input_gain_set(raw, mode, opt, Some(focus[2]))
    /\ UNCHANGED focus

NextGain == OutputGainSet \/ InputGainSet

SpecGain == InitGainSpec /\ [][NextGain]_vars

\* ---------------------------------------------------------------------------
\* fades: the gain actions of one domain with every kind of fade duration, the
\* ticker and the link

MaxFadeTicks == 3

GainDomains == {"input", "output", "matrix"}

InitFadeSpec ==
    /\ \E d \in GainDomains : focus = <<"fade", d>>
    /\ InitUnmuted /\ InitAccel /\ InitKnob /\ InitEq /\ InitGain /\ InitDelay /\ InitFilter /\ InitLink /\ InitObs

\* the time of the last tick of a behaviour
FadeEnd == 10 * AccelWindowMs + MaxFadeTicks * FadeTickMs

\* fadeMs: not a number, negative, zero and 300 ms
FadeMsOptions == {Null, Some(-100), Some(0), Some(300)}

\* a fade is requested early enough for the ticker to finish it
FadeCanFinish(fadeMs) ==
    now + FadeTickMs * ((GainDur(fadeMs) + FadeTickMs - 1) \div FadeTickMs) <= FadeEnd

FadeModes == {"value"}
MatrixGainModes == {"set", "minus6", "nudge"}
MatrixGainOptions(mode) ==
    {[gain |-> 0, delta |-> d] : d \in IF mode = "nudge" THEN {-60, 60} ELSE {0}}

\* the set mode is tried with every fade duration, the modes that ignore the
\* option with the 300 ms that they ignore
MatrixFadeMsOptions(mode) == IF mode = "set" THEN FadeMsOptions ELSE {Some(300)}

OutputGainFade ==
    /\ focus = <<"fade", "output">>
    /\ \E raw \in GainSelOut, mode \in FadeModes, fadeMs \in FadeMsOptions :
          \E opt \in GainOptions(mode) :
             /\ FadeCanFinish(fadeMs)
             /\ output_gain_set(raw, mode, opt, fadeMs)
    /\ UNCHANGED focus

InputGainFade ==
    /\ focus = <<"fade", "input">>
    /\ \E raw \in GainSelIn, mode \in FadeModes, fadeMs \in FadeMsOptions :
          \E opt \in GainOptions(mode) :
             /\ FadeCanFinish(fadeMs)
             /\ input_gain_set(raw, mode, opt, fadeMs)
    /\ UNCHANGED focus

MatrixGain ==
    /\ focus = <<"fade", "matrix">>
    /\ \E rawIn \in SelMatrixIn, rawOut \in GainSelOut, mode \in MatrixGainModes :
          \E opt \in MatrixGainOptions(mode), fadeMs \in MatrixFadeMsOptions(mode) :
             /\ FadeCanFinish(fadeMs)
             /\ mode = "nudge" =>
                    \A pt \in Range(CrossPoints(safeGetChannels(rawIn, NUM_MATRIX_INPUTS),
                                                 safeGetChannels(rawOut, NUM_OUTPUTS))) :
                        OrDefault(matrixGain[pt], 0) + opt.delta \in GainRange
             /\ matrix_gain(rawIn, rawOut, mode, opt, fadeMs)
    /\ UNCHANGED focus

FadeTick ==
    /\ focus[1] \in {"fade", "recall"}
    /\ now + FadeTickMs <= FadeEnd
    /\ FadeTickAt(now + FadeTickMs)
    /\ UNCHANGED focus

Disconnect == focus[1] = "fade" /\ LinkDisconnected /\ UNCHANGED focus

Connect == focus[1] = "fade" /\ LinkConnected /\ UNCHANGED focus

NextFade == OutputGainFade \/ InputGainFade \/ MatrixGain \/ FadeTick \/ Disconnect \/ Connect

SpecFade == InitFadeSpec /\ [][NextFade]_vars

\* the ticker is a periodic timer: it keeps ticking
SpecFadeLive == SpecFade /\ WF_vars(FadeTick)

\* ---------------------------------------------------------------------------
\* recall memory: presses that set or recall the gain of one domain, at once or
\* with a fade, captures attempted on their own, and time passing

InitRecallSpec ==
    /\ \E d \in Domains : focus = <<"recall", d>>
    /\ InitUnmuted /\ InitAccel /\ InitKnob /\ InitEq /\ InitGain /\ InitDelay /\ InitFilter /\ InitLink /\ InitObs

RecallModes == {"value", "last"}
RecallFadeMsOptions == {Some(0), Some(300)}

OutputGainRecall ==
    /\ focus = <<"recall", "output">>
    /\ \E raw \in GainSelOut, mode \in RecallModes, fadeMs \in RecallFadeMsOptions :
          \E opt \in GainOptions(mode) :
             /\ FadeCanFinish(fadeMs)
             /\ output_gain_set(raw, mode, opt, fadeMs)
    /\ UNCHANGED focus

InputGainRecall ==
    /\ focus = <<"recall", "input">>
    /\ \E raw \in GainSelIn, mode \in RecallModes, fadeMs \in RecallFadeMsOptions :
          \E opt \in GainOptions(mode) :
             /\ FadeCanFinish(fadeMs)
             /\ input_gain_set(raw, mode, opt, fadeMs)
    /\ UNCHANGED focus

RememberPrevGain ==
    /\ focus[1] = "recall"
    /\ \E ch \in (IF focus[2] = "input" THEN Inputs ELSE Outputs) : remember_prev_gain(focus[2], ch)
    /\ UNCHANGED focus

NextRecall == OutputGainRecall \/ InputGainRecall \/ RememberPrevGain \/ FadeTick

SpecRecall == InitRecallSpec /\ [][NextRecall]_vars

(***************************************************************************)
(* Knob selection actions.                                                 *)
(***************************************************************************)
InitSelectSpec ==
    /\ focus = "select"
    /\ InitUnmuted /\ InitAccel /\ InitKnob /\ InitEq /\ InitGain /\ InitDelay /\ InitFilter /\ InitLink /\ InitObs

OutputEqSelectOutput ==
    /\ \E raw \in SelOut : output_eq_select_output(raw)
    /\ UNCHANGED focus

InputEqSelectInput ==
    /\ \E raw \in SelIn : input_eq_select_input(raw)
    /\ UNCHANGED focus

OutputUShapingSelectOutput ==
    /\ \E raw \in SelOut : output_ushaping_select_output(raw)
    /\ UNCHANGED focus

NextSelect == OutputEqSelectOutput \/ InputEqSelectInput \/ OutputUShapingSelectOutput

SpecSelect == InitSelectSpec /\ [][NextSelect]_vars

(***************************************************************************)
(* The Channel Set Validator on its own: a raw selection and a maximum are *)
(* drawn, then validated as the call sites do.                             *)
(***************************************************************************)
\* the selection [2, 2, 5, 99] of a device with 16 outputs
ExampleSelection == [raw |-> <<NumTok(2), NumTok(2), NumTok(5), NumTok(99)>>, max |-> 16]

ValidatorInputs ==
    {[raw |-> r, max |-> m] : m \in {NUM_OUTPUTS}, r \in RawLists(NUM_OUTPUTS)}
        \cup {ExampleSelection}

InitValidatorSpec ==
    /\ focus = "validate"
    /\ InitUnmuted /\ InitAccel /\ InitKnob /\ InitEq /\ InitGain /\ InitDelay /\ InitFilter /\ InitLink
    /\ sent = <<>>
    /\ \E in \in ValidatorInputs :
          last = [act |-> "validate", kind |-> "input", raw |-> in.raw, max |-> in.max, out |-> <<>>]

\* const chs = safeGetChannels(e.options, 'chs', max)
Validate ==
    /\ last.kind = "input"
    /\ last' = [last EXCEPT !.kind = "done", !.out = safeGetChannels(last.raw, last.max)]
    /\ UNCHANGED <<soloVars, accelVars, knobVars, eqVars, gainVars, delayVars, filterVars, linkVars, focus, sent>>

NextValidator == Validate

SpecValidator == InitValidatorSpec /\ [][NextValidator]_vars

(***************************************************************************)
(* Delay actions.  A behaviour exercises the delay action of one domain.   *)
(***************************************************************************)
DelayDomains == {"input", "output", "matrix"}

InitDelaySpec ==
    /\ focus \in DelayDomains
    /\ InitUnmuted /\ InitAccel /\ InitKnob /\ InitEq /\ InitGain /\ InitDelay /\ InitFilter /\ InitLink /\ InitObs

\* the unit and value options of a request (values in hundredths): unchanged,
\* 2500 ms (beyond every range), 100 ft, 10 m, one frame at 24 fps and a value
\* that is not a number
DelayRequests ==
    {[type |-> "unchanged", value |-> Some(1000)],
     [type |-> "0", value |-> Some(250000)],
     [type |-> "0", value |-> Null],
     [type |-> "1", value |-> Some(10000)],
     [type |-> "2", value |-> Some(1000)],
     [type |-> "3", value |-> Some(100)]}

\* the matrix action is exercised with the requests the claims are about
MatrixDelayRequests == {q \in DelayRequests : q.type \in {"unchanged", "1"}}
StatusModes == {"unchanged", "on", "off", "toggle"}

OutputDelaySet ==
    /\ focus = "output"
    /\ \E raw \in GainSelOut, q \in DelayRequests : output_delay_set(raw, q.type, q.value)
    /\ UNCHANGED focus

InputDelaySet ==
    /\ focus = "input"
    /\ \E raw \in GainSelIn, q \in DelayRequests : input_delay_set(raw, q.type, q.value)
    /\ UNCHANGED focus

MatrixDelayFull ==
    /\ focus = "matrix"
    /\ \E rawIn \in SelMatrixIn, rawOut \in GainSelOut, q \in MatrixDelayRequests, st \in StatusModes :
          matrix_delay_full(rawIn, rawOut, q.type, q.value, st)
    /\ UNCHANGED focus

NextDelay == OutputDelaySet \/ InputDelaySet \/ MatrixDelayFull

SpecDelay == InitDelaySpec /\ [][NextDelay]_vars

\* ---------------------------------------------------------------------------
\* the unit conversion on its own: a domain, a unit and two values are drawn and
\* the conversion of the delay callbacks is applied to both

DelayUnits == {"0", "1", "2", "3", "4", "5", "6"}

\* values in hundredths: negative, zero, small, around each range and beyond it
\* (sample counts reach the range only when large), and a value that is not a number
ConvertValues(u) ==
    {Null} \cup {Some(v) : v \in {-100, 0, 1, 49, 1200, 10000, 56250, 56300, 250000}
                                \cup (IF u = "6" THEN {4800000, 20000000} ELSE {})}

\* the upper end of clamp(msFromValue, 0, ...) in the three delay callbacks
DelayMaxMs(dom) == IF dom = "output" THEN 2000 ELSE 500

InitConvertSpec ==
    /\ \E d \in DelayDomains, u \in DelayUnits :
          \E a \in ConvertValues(u), b \in ConvertValues(u) : focus = <<"convert", d, u, a, b>>
    /\ InitUnmuted /\ InitAccel /\ InitKnob /\ InitEq /\ InitGain /\ InitDelay /\ InitFilter /\ InitLink /\ InitObs

\* targetMs and samples of both values, as the callback of the domain computes them
ConvertDelay ==
    /\ focus[1] = "convert"
    /\ last.act = "init"
    /\ LET maxMs == DelayMaxMs(focus[2])
           msA == TargetMs(focus[4], focus[3], maxMs)
           msB == TargetMs(focus[5], focus[3], maxMs)
       IN last' = [act |-> "convert", dom |-> focus[2], type |-> focus[3],
                   a |-> focus[4], b |-> focus[5], msA |-> msA, msB |-> msB,
                   samplesA |-> SamplesOf(msA), samplesB |-> SamplesOf(msB)]
    /\ UNCHANGED <<soloVars, accelVars, knobVars, eqVars, gainVars, delayVars, filterVars, linkVars, focus, sent>>

NextConvert == ConvertDelay

SpecConvert == InitConvertSpec /\ [][NextConvert]_vars

\* ---------------------------------------------------------------------------
\* parameter bounds: the callbacks that write one parameter (gain, frequency,
\* bandwidth, Q or slope) of one filter of one domain, with option values on both
\* sides of the parameter's range.  A behaviour either turns and presses the knob
\* of the parameter ("rotary") or presses the buttons of every callback that
\* writes it ("buttons").  The knobs act on the channels and the band that were
\* selected before the behaviour starts.
ParamFoci ==
    {<<"param", d, "ushaping", f, "rotary">> : d \in Domains, f \in {"gain", "frequency"}}
    \cup {<<"param", d, "eq", f, "rotary">> : d \in Domains, f \in {"gain", "frequency", "bandwidth"}}
    \cup {<<"param", "output", "allpass", f, "buttons">> : f \in {"frequency", "q"}}
    \cup {<<"param", "input", "ushaping", f, "buttons">> : f \in {"gain", "frequency", "slope"}}
    \cup {<<"param", d, "ushaping", "slope", "rotary">> : d \in Domains}
    \cup {<<"param", "input", "chingonizer", "slope", "rotary">>}

ParamFocus(dom, sub, field) == focus[2] = dom /\ focus[3] = sub /\ focus[4] = field

\* the knob of the parameter is used in "rotary" behaviours
ParamKnob(dom, sub, field) == ParamFocus(dom, sub, field) /\ focus[5] = "rotary"

\* before a "rotary" behaviour nothing or every channel is selected, and before
\* one of a frequency knob no band or one of the filter's bands; a "buttons"
\* behaviour starts with nothing selected and names its channels in the options
ParamControls(n, bands) ==
    IF focus[5] = "rotary"
    THEN {[selected |-> s, selectedBand |-> b] :
             s \in {Null, Some(SetToSeq(1..n))},
             b \in {Null} \cup {Some(x) : x \in IF focus[4] = "frequency" THEN bands ELSE {}}}
    ELSE {NoControl}

ParamControl(dom, sub, n, bands) ==
    IF focus[2] = dom /\ focus[3] = sub THEN ParamControls(n, bands) ELSE {NoControl}

InitParamSpec ==
    /\ focus \in ParamFoci
    /\ eqKnobControlOutput \in ParamControl("output", "eq", NUM_OUTPUTS, Bands)
    /\ eqKnobControl \in ParamControl("input", "eq", NUM_INPUTS, Bands)
    /\ ushapingKnobControlOutput \in ParamControl("output", "ushaping", NUM_OUTPUTS, UShapingBands)
    /\ ushapingKnobControl \in ParamControl("input", "ushaping", NUM_INPUTS, UShapingBands)
                               \cup ParamControl("input", "chingonizer", NUM_INPUTS, UShapingBands)
    /\ InitUnmuted /\ InitAccel /\ InitEq /\ InitGain /\ InitDelay /\ InitFilter /\ InitLink /\ InitObs

\* a detent of an encoder arrives at a clock reading of its own
FreshReading(name, surf) ==
    IF surf = NoSurface THEN TRUE ELSE LastRotation(rotaryAccel, AccelKey(name, surf)).time < now

\* no channel or every channel
ParamSelections(n) == {SetToRaw({}), SetToRaw(1..n)}
\* a fine step of 6 dB down and the default coarse step of 0.5 dB
KnobGainOpts == {[delta_fine |-> Some(-60), delta_coarse |-> Null]}
EncoderDeltas == {Null, Some(0), Some(1), Some(-1)}
\* button deltas of 12 dB either way
GainPressDeltas == {-120, 120}
\* button deltas beyond the whole frequency range
FreqPressDeltas == {-2500000, 2500000}
\* button deltas of half the bandwidth range
BwPressDeltas == {-100, 100}

OutputUShapingKnobGain ==
    /\ ParamKnob("output", "ushaping", "gain")
    /\ \E isCoarse \in BOOLEAN, opt \in KnobGainOpts, enc \in EncoderDeltas :
          output_ushaping_knob_gain(isCoarse, opt, enc)
    /\ UNCHANGED focus

OutputEqKnobGain ==
    /\ ParamKnob("output", "eq", "gain")
    /\ \E isCoarse \in BOOLEAN, opt \in KnobGainOpts, enc \in EncoderDeltas :
          output_eq_knob_gain(isCoarse, opt, enc)
    /\ UNCHANGED focus

InputUShapingKnobGain ==
    /\ ParamKnob("input", "ushaping", "gain")
    /\ \E surf \in KnobSurfaces("ushaping_gain"), d \in GainPressDeltas :
          /\ FreshReading("ushaping_gain", surf)
          /\ input_ushaping_knob_gain(surf, d)
    /\ UNCHANGED focus

InputEqKnobGain ==
    /\ ParamKnob("input", "eq", "gain")
    /\ \E surf \in KnobSurfaces("eq_gain"), d \in GainPressDeltas :
          /\ FreshReading("eq_gain", surf)
          /\ input_eq_knob_gain(surf, d)
    /\ UNCHANGED focus

OutputEqBandwidth ==
    /\ ParamKnob("output", "eq", "bandwidth")
    /\ \E surf \in KnobSurfaces("eq_bw"), d \in BwPressDeltas :
          /\ FreshReading("eq_bw", surf)
          /\ output_eq_knob_bandwidth(surf, d)
    /\ UNCHANGED focus

InputEqKnobBandwidth ==
    /\ ParamKnob("input", "eq", "bandwidth")
    /\ \E surf \in KnobSurfaces("eq_bw"), d \in BwPressDeltas :
          /\ FreshReading("eq_bw", surf)
          /\ input_eq_knob_bandwidth(surf, d)
    /\ UNCHANGED focus

OutputEqKnobFrequency ==
    /\ ParamKnob("output", "eq", "frequency")
    /\ \E surf \in KnobSurfaces("eq_freq"), d \in FreqPressDeltas :
          /\ FreshReading("eq_freq", surf)
          /\ output_eq_knob_frequency(surf, d)
    /\ UNCHANGED focus

InputEqKnobFrequency ==
    /\ ParamKnob("input", "eq", "frequency")
    /\ \E surf \in KnobSurfaces("eq_freq"), d \in FreqPressDeltas :
          /\ FreshReading("eq_freq", surf)
          /\ input_eq_knob_frequency(surf, d)
    /\ UNCHANGED focus

OutputUShapingKnobFrequency ==
    /\ ParamKnob("output", "ushaping", "frequency")
    /\ \E surf \in KnobSurfaces("ushaping_freq"), d \in FreqPressDeltas :
          /\ FreshReading("ushaping_freq", surf)
          /\ output_ushaping_knob_frequency(surf, d)
    /\ UNCHANGED focus

InputUShapingKnobFrequency ==
    /\ ParamKnob("input", "ushaping", "frequency")
    /\ \E surf \in KnobSurfaces("ushaping_freq"), d \in FreqPressDeltas :
          /\ FreshReading("ushaping_freq", surf)
          /\ input_ushaping_knob_frequency(surf, d)
    /\ UNCHANGED focus

SlopeDirections == {"up", "down"}

OutputUShapingSlopeKnob ==
    /\ ParamKnob("output", "ushaping", "slope")
    /\ \E surf \in KnobSurfaces("ushaping_slope"), dir \in SlopeDirections :
          /\ FreshReading("ushaping_slope", surf)
          /\ output_ushaping_knob_slope(surf, dir)
    /\ UNCHANGED focus

InputUShapingSlopeKnob ==
    /\ ParamKnob("input", "ushaping", "slope")
    /\ \E surf \in KnobSurfaces("ushaping_slope"), dir \in SlopeDirections :
          /\ FreshReading("ushaping_slope", surf)
          /\ input_ushaping_knob_slope(surf, dir)
    /\ UNCHANGED focus

InputUShapingChingonizerKnobSlope ==
    /\ ParamKnob("input", "chingonizer", "slope")
    /\ \E surf \in KnobSurfaces("chingonizer_slope"), dir \in SlopeDirections, enc \in EncoderDeltas :
          /\ FreshReading("chingonizer_slope", surf)
          /\ input_ushaping_chingonizer_knob_slope(surf, dir, enc)
    /\ UNCHANGED focus

\* a value on either side of the range and a delta of more than half the range
AdjustOpts(param) ==
    IF param = "gain" THEN {[value |-> v, delta |-> 270] : v \in {-200, 200}}
    ELSE IF param = "frequency" THEN {[value |-> v, delta |-> -1500000] : v \in {500, 2500000}}
    ELSE {[value |-> v, delta |-> 15] : v \in {0, 25}}

InputUShapingAdjust ==
    /\ focus[2] = "input" /\ focus[3] = "ushaping" /\ focus[5] = "buttons"
    /\ \E raw \in ParamSelections(NUM_INPUTS), band \in {1, UShapingHfBand}, mode \in {"set", "adjust"} :
          \E opt \in AdjustOpts(focus[4]) : input_ushaping_adjust(raw, band, focus[4], mode, opt)
    /\ UNCHANGED focus

\* 100 Hz and 3 kHz around the Chingonizer's range, 9 dB and 20 dB
ChingonizerFreqs(field) == IF field = "frequency" THEN {10000, 300000} ELSE {100000}
ChingonizerGains(field) == IF field = "gain" THEN {90, 200} ELSE {30}

InputUShapingChingonizer ==
    /\ focus[2] = "input" /\ focus[3] = "ushaping" /\ focus[4] \in {"gain", "frequency"}
    /\ focus[5] = "buttons"
    /\ \E raw \in ParamSelections(NUM_INPUTS), freqRaw \in ChingonizerFreqs(focus[4]),
          gainRaw \in ChingonizerGains(focus[4]) :
          input_ushaping_chingonizer(raw, freqRaw, gainRaw)
    /\ UNCHANGED focus

\* steps of 9 dB down and 18 dB up, of 3 kHz either way
ChingonizerGainOpts == {[delta_fine |-> Some(-90), delta_coarse |-> Some(180)]}
ChingonizerFreqOpts == {[delta_fine |-> Some(-300000), delta_coarse |-> Some(300000)]}

InputUShapingChingonizerKnobGain ==
    /\ ParamFocus("input", "ushaping", "gain") /\ focus[5] = "buttons"
    /\ \E raw \in ParamSelections(NUM_INPUTS), isCoarse \in BOOLEAN, opt \in ChingonizerGainOpts,
          enc \in EncoderDeltas :
          input_ushaping_chingonizer_knob_gain(raw, isCoarse, opt, enc)
    /\ UNCHANGED focus

InputUShapingChingonizerKnobFrequency ==
    /\ ParamFocus("input", "ushaping", "frequency") /\ focus[5] = "buttons"
    /\ \E raw \in ParamSelections(NUM_INPUTS), isCoarse \in BOOLEAN, opt \in ChingonizerFreqOpts,
          enc \in EncoderDeltas :
          input_ushaping_chingonizer_knob_frequency(raw, isCoarse, opt, enc)
    /\ UNCHANGED focus

\* band options below and above 1..3
AllpassBandOptions == {0, 4}
AllpassModes == {"value", "nudge"}
\* no number, 0 and 30 kHz
AllpassFreqValues == {Null, Some(0), Some(3000000)}
AllpassFreqDeltas == {Null, Some(-2500000), Some(1000000)}
\* no number, 0 and 15
AllpassQValues == {Null, Some(0), Some(1500)}
AllpassQDeltas == {Null, Some(-1300), Some(700)}

\* the options the mode reads: the value when it sets, the deltas and the value
\* it falls back to when it nudges
AllpassOptions(mode, value, fine) ==
    IF mode = "value" THEN fine = Null ELSE value # Some(0)

OutputAllpassFrequency ==
    /\ ParamFocus("output", "allpass", "frequency")
    /\ \E raw \in ParamSelections(NUM_OUTPUTS), bandRaw \in AllpassBandOptions, mode \in AllpassModes,
          value \in AllpassFreqValues, fine \in AllpassFreqDeltas :
          /\ AllpassOptions(mode, value, fine)
          /\ output_allpass_frequency(raw, bandRaw, mode, value, fine)
    /\ UNCHANGED focus

OutputAllpassQ ==
    /\ ParamFocus("output", "allpass", "q")
    /\ \E raw \in ParamSelections(NUM_OUTPUTS), bandRaw \in AllpassBandOptions, mode \in AllpassModes,
          value \in AllpassQValues, isCoarse \in BOOLEAN, fine \in AllpassQDeltas,
          coarse \in {Null, Some(300)} :
          /\ AllpassOptions(mode, value, fine) /\ (mode = "value" => ~isCoarse)
          /\ (~isCoarse => coarse = Null) /\ (isCoarse /\ coarse # Null => fine = Null)
          /\ output_allpass_q(raw, bandRaw, mode, value, isCoarse, fine, coarse)
    /\ UNCHANGED focus

ParamTick ==
    /\ focus[1] = "param"
    /\ Tick

NextParam ==
    \/ ParamTick
    \/ OutputUShapingKnobGain
    \/ OutputEqKnobGain
    \/ InputUShapingKnobGain
    \/ InputEqKnobGain
    \/ OutputEqBandwidth
    \/ InputEqKnobBandwidth
    \/ OutputEqKnobFrequency
    \/ InputEqKnobFrequency
    \/ OutputUShapingKnobFrequency
    \/ InputUShapingKnobFrequency
    \/ OutputUShapingSlopeKnob
    \/ InputUShapingSlopeKnob
    \/ InputUShapingChingonizerKnobSlope
    \/ InputUShapingAdjust
    \/ InputUShapingChingonizer
    \/ InputUShapingChingonizerKnobGain
    \/ InputUShapingChingonizerKnobFrequency
    \/ OutputAllpassFrequency
    \/ OutputAllpassQ

SpecParam == InitParamSpec /\ [][NextParam]_vars

\* ---------------------------------------------------------------------------
\* HF attenuation: a device with NUM_ARRAY_OUTPUTS outputs, so that an array of
\* eight loudspeakers fits, and HfMaxCalls presses of the action
NUM_ARRAY_OUTPUTS == 8
HfMaxCalls == 2
ArrayOutputs == 1..NUM_ARRAY_OUTPUTS

InitHfSpec ==
    /\ focus = "hf"
    /\ InitUnmuted /\ InitAccel /\ InitKnob /\ InitGain /\ InitDelay /\ InitFilter /\ InitLink /\ InitObs
    /\ outputEQ = [k \in Outputs \X Bands \X EqFields |-> Null]
    /\ inputEQ = [k \in Inputs \X Bands \X EqFields |-> Null]
    /\ outputUShaping = [k \in ArrayOutputs \X UShapingBands \X UShapingFields |-> Null]
    /\ inputUShaping = [k \in Inputs \X UShapingBands \X UShapingFields |-> Null]
    /\ outputAllpass = [k \in Outputs \X AllpassBands \X AllpassFields |-> Null]

\* no number, 0, some outputs of the device and one beyond it
HfStartOptions == {Null, Some(0), Some(2), Some(5), Some(NUM_ARRAY_OUTPUTS - 1), Some(NUM_ARRAY_OUTPUTS + 1)}
\* no number, 0 and every count up to one beyond the device
HfTotalOptions == {Null} \cup {Some(t) : t \in 0..(NUM_ARRAY_OUTPUTS + 1)}
\* no number (8 dB), 0, 0.5 dB, 8 dB, 10 dB and 30 dB
HfRatioOptions == {Null, Some(0), Some(5), Some(80), Some(100), Some(300)}

OutputHfAttenuation ==
    /\ focus = "hf"
    /\ last.n < HfMaxCalls
    /\ \E startOpt \in HfStartOptions, totalOpt \in HfTotalOptions, ratioOpt \in HfRatioOptions :
          output_hf_attenuation(NUM_ARRAY_OUTPUTS, startOpt, totalOpt, ratioOpt)
    /\ UNCHANGED focus

NextHf == OutputHfAttenuation

SpecHf == InitHfSpec /\ [][NextHf]_vars

\* ---------------------------------------------------------------------------
\* filter bypass: the bypass buttons of the high-pass and the low-pass filter, on a
\* device whose filters are in any state
BypassFlags == {Null, Some(FALSE), Some(TRUE)}

InitFilterSpec ==
    /\ focus = "filter"
    /\ outputHighpass \in [Outputs -> BypassFlags]
    /\ outputLowpass \in [Outputs -> BypassFlags]
    /\ rotaryPressState = NoPress
    /\ InitUnmuted /\ InitAccel /\ InitKnob /\ InitEq /\ InitGain /\ InitDelay /\ InitLink /\ InitObs

\* the three choices of the dropdown and an event without the option
BypassOperations == {Null, Some("on"), Some("off"), Some("toggle")}

OutputHighpassBypass ==
    /\ focus = "filter"
    /\ \E raw \in Selections(NUM_OUTPUTS), opOpt \in BypassOperations : output_highpass_bypass(raw, opOpt)
    /\ UNCHANGED focus

OutputLowpassBypass ==
    /\ focus = "filter"
    /\ \E raw \in Selections(NUM_OUTPUTS), opOpt \in BypassOperations : output_lowpass_bypass(raw, opOpt)
    /\ UNCHANGED focus

NextFilter ==
    \/ OutputHighpassBypass
    \/ OutputLowpassBypass

SpecFilter == InitFilterSpec /\ [][NextFilter]_vars

\* ---------------------------------------------------------------------------
\* link groups: the assign buttons of both domains, with selections that hold
\* valid, out-of-range and non-numeric tokens
InitLinkSpec ==
    /\ focus = "link"
    /\ InitUnmuted /\ InitAccel /\ InitKnob /\ InitEq /\ InitGain /\ InitDelay /\ InitFilter /\ InitLink
    /\ InitObs

\* 'Unassign' and the first and the last link group
LinkGroups == {0, 1, 8}
LinkMaxCalls == 2

OutputLinkGroupAssign ==
    /\ focus = "link" /\ last.n < LinkMaxCalls
    /\ \E raw \in Selections(NUM_OUTPUTS), group \in LinkGroups : output_link_group_assign(raw, group)
    /\ UNCHANGED focus

InputLinkGroupAssign ==
    /\ focus = "link" /\ last.n < LinkMaxCalls
    /\ \E raw \in Selections(NUM_INPUTS), group \in LinkGroups : input_link_group_assign(raw, group)
    /\ UNCHANGED focus

NextLink ==
    \/ OutputLinkGroupAssign
    \/ InputLinkGroupAssign

SpecLink == InitLinkSpec /\ [][NextLink]_vars

\* ---------------------------------------------------------------------------
\* Band selection and the U-Shaping actions of one domain: a behaviour selects
\* band 1, the HF band or a band that does not exist, and then presses the
\* frequency and slope knobs and, on the inputs, the adjust action
InitBandSpec ==
    /\ focus \in {<<"band", d>> : d \in Domains}
    /\ eqKnobControlOutput = NoControl
    /\ eqKnobControl = NoControl
    /\ ushapingKnobControlOutput = NoControl
    /\ ushapingKnobControl = NoControl
    /\ InitUnmuted /\ InitAccel /\ InitEq /\ InitGain /\ InitDelay /\ InitFilter /\ InitLink /\ InitObs

BandFocus(dom) == focus = <<"band", dom>>

\* the dropdown's first and last band, and a band it does not offer
BandOptions == {1, UShapingHfBand, 6}

OutputUShapingSelectBand ==
    /\ BandFocus("output")
    /\ \E band \in BandOptions : output_ushaping_select_band(band)
    /\ UNCHANGED focus

InputUShapingSelectBand ==
    /\ BandFocus("input")
    /\ \E band \in BandOptions : input_ushaping_select_band(band)
    /\ UNCHANGED focus

OutputUShapingBandSlope ==
    /\ BandFocus("output")
    /\ \E dir \in SlopeDirections : output_ushaping_knob_slope(NoSurface, dir)
    /\ UNCHANGED focus

InputUShapingBandSlope ==
    /\ BandFocus("input")
    /\ \E dir \in SlopeDirections : input_ushaping_knob_slope(NoSurface, dir)
    /\ UNCHANGED focus

OutputUShapingBandFrequency ==
    /\ BandFocus("output")
    /\ \E d \in FreqPressDeltas : output_ushaping_knob_frequency(NoSurface, d)
    /\ UNCHANGED focus

InputUShapingBandFrequency ==
    /\ BandFocus("input")
    /\ \E d \in FreqPressDeltas : input_ushaping_knob_frequency(NoSurface, d)
    /\ UNCHANGED focus

InputUShapingBandAdjust ==
    /\ BandFocus("input")
    /\ \E band \in {1, UShapingHfBand}, param \in {"frequency", "slope"} :
          \E opt \in AdjustOpts(param) :
             input_ushaping_adjust(SetToRaw({1}), band, param, "set", opt)
    /\ UNCHANGED focus

NextBand ==
    \/ OutputUShapingSelectBand
    \/ InputUShapingSelectBand
    \/ OutputUShapingBandSlope
    \/ InputUShapingBandSlope
    \/ OutputUShapingBandFrequency
    \/ InputUShapingBandFrequency
    \/ InputUShapingBandAdjust

SpecBand == InitBandSpec /\ [][NextBand]_vars

\* ---------------------------------------------------------------------------
\* The U-Shaping knobs after other actions have stored a value.  On the inputs
\* the adjust action and the Chingonizer write band 1 of input 1 and the knobs
\* are pressed with nothing selected; on the outputs, a device with
\* NUM_ARRAY_OUTPUTS outputs, the HF attenuation writes the curve of four
\* loudspeakers and the gain knob is turned on band 5 of output 1 or output 4
RangeFocus(dom) == focus = <<"range", dom>>

InitRangeSpec ==
    /\ focus \in {<<"range", d>> : d \in Domains}
    /\ InitUnmuted /\ InitAccel /\ InitGain /\ InitDelay /\ InitFilter /\ InitLink /\ InitObs
    /\ eqKnobControlOutput = NoControl
    /\ eqKnobControl = NoControl
    /\ ushapingKnobControl = NoControl
    /\ ushapingKnobControlOutput \in
         IF RangeFocus("output")
         THEN {[selected |-> x, selectedBand |-> Some(UShapingHfBand)] : x \in {Null, Some(<<4>>)}}
         ELSE {NoControl}
    /\ outputEQ = [k \in Outputs \X Bands \X EqFields |-> Null]
    /\ inputEQ = [k \in Inputs \X Bands \X EqFields |-> Null]
    /\ outputUShaping = [k \in ArrayOutputs \X UShapingBands \X UShapingFields |-> Null]
    /\ inputUShaping = [k \in Inputs \X UShapingBands \X UShapingFields |-> Null]
    /\ outputAllpass = [k \in Outputs \X AllpassBands \X AllpassFields |-> Null]

\* button deltas of 5 dB either way
RangeGainDeltas == {-50, 50}

InputRangeAdjust ==
    /\ RangeFocus("input")
    /\ \E param \in {"gain", "frequency"} : \E opt \in AdjustOpts(param) :
          input_ushaping_adjust(SetToRaw({1}), 1, param, "set", opt)
    /\ UNCHANGED focus

InputRangeChingonizer ==
    /\ RangeFocus("input")
    /\ \E freqRaw \in ChingonizerFreqs("frequency"), gainRaw \in ChingonizerGains("gain") :
          input_ushaping_chingonizer(SetToRaw({1}), freqRaw, gainRaw)
    /\ UNCHANGED focus

InputRangeKnobGain ==
    /\ RangeFocus("input")
    /\ \E d \in RangeGainDeltas : input_ushaping_knob_gain(NoSurface, d)
    /\ UNCHANGED focus

InputRangeKnobFrequency ==
    /\ RangeFocus("input")
    /\ \E d \in FreqPressDeltas : input_ushaping_knob_frequency(NoSurface, d)
    /\ UNCHANGED focus

\* spans of 8 dB and 24 dB over the outputs 1-4
RangeHfRatios == {Some(80), Some(240)}

OutputRangeHfAttenuation ==
    /\ RangeFocus("output")
    /\ ("n" \in DOMAIN last) => last.n < HfMaxCalls
    /\ \E ratioOpt \in RangeHfRatios :
          output_hf_attenuation(NUM_ARRAY_OUTPUTS, Null, Some(4), ratioOpt)
    /\ UNCHANGED focus

OutputRangeKnobGain ==
    /\ RangeFocus("output")
    /\ \E isCoarse \in BOOLEAN, opt \in KnobGainOpts, enc \in EncoderDeltas :
          output_ushaping_knob_gain(isCoarse, opt, enc)
    /\ UNCHANGED focus

NextRange ==
    \/ InputRangeAdjust
    \/ InputRangeChingonizer
    \/ InputRangeKnobGain
    \/ InputRangeKnobFrequency
    \/ OutputRangeHfAttenuation
    \/ OutputRangeKnobGain

SpecRange == InitRangeSpec /\ [][NextRange]_vars

\* ---------------------------------------------------------------------------
\* The coarse-mode buttons and a knob that reads them: the buttons and the knob
\* of the controls of two surfaces, and events that carry their ids at
\* the top level, under .event, or not at all.  The knob steps by 5 dB in fine
\* and by 10 dB in coarse mode on band 1 of output 1
SurfaceIds == {<<>>, <<"s">>, <<"s", ":", ":", "c">>}
ControlIds == {<<>>, <<"c", ":", ":", "d">>, <<"d">>}
NestedIds == {<<>>, <<"d">>}

RotaryEvents ==
    {[surfaceId |-> su, controlId |-> co, event |-> [surfaceId |-> <<>>, controlId |-> ne]] :
        su \in SurfaceIds, co \in ControlIds, ne \in NestedIds}

CoarseOps == {"press", "release", "toggle"}

CoarseKnobOpts == {[delta_fine |-> Some(50), delta_coarse |-> Some(100)]}

InitCoarseSpec ==
    /\ focus = "coarse"
    /\ InitUnmuted /\ InitAccel /\ InitEq /\ InitGain /\ InitDelay /\ InitFilter /\ InitLink /\ InitObs
    /\ eqKnobControlOutput = NoControl
    /\ eqKnobControl = NoControl
    /\ ushapingKnobControl = NoControl
    /\ ushapingKnobControlOutput = [selected |-> Some(<<1>>), selectedBand |-> Some(1)]

InputUShapingChingonizerFreqCoarseMode ==
    /\ focus = "coarse"
    /\ \E ev \in RotaryEvents, op \in CoarseOps : input_ushaping_chingonizer_freq_coarse_mode(ev, op)
    /\ UNCHANGED focus

OutputUShapingGainCoarseMode ==
    /\ focus = "coarse"
    /\ \E ev \in RotaryEvents, op \in CoarseOps : output_ushaping_gain_coarse_mode(ev, op)
    /\ UNCHANGED focus

OutputAllpassQCoarseMode ==
    /\ focus = "coarse"
    /\ \E ev \in RotaryEvents, op \in CoarseOps : output_allpass_q_coarse_mode(ev, op)
    /\ UNCHANGED focus

OutputUShapingKnobGainCoarse ==
    /\ focus = "coarse"
    /\ \E ev \in RotaryEvents, opt \in CoarseKnobOpts, enc \in {Some(1), Some(-1)} :
          output_ushaping_knob_gain(IsCoarse(rotaryPressState, ev), opt, enc)
    /\ UNCHANGED focus

NextCoarse ==
    \/ InputUShapingChingonizerFreqCoarseMode
    \/ OutputUShapingGainCoarseMode
    \/ OutputAllpassQCoarseMode
    \/ OutputUShapingKnobGainCoarse

SpecCoarse == InitCoarseSpec /\ [][NextCoarse]_vars

\* ---------------------------------------------------------------------------
\* The upgrade scripts: a stored config of a version before V2, with or without
\* a Bonjour host, or of a version before V3; V2 runs first where it has to run
\* and V3 after it
BonjourHosts ==
    {JsNull, Str(<<>>), Str(<<" ", " ">>),
     Str(<<"h">>), Str(<<"h", ":", "7">>), Str(<<" ", "h", " ", ":", " ", "7", " ">>),
     Str(<<"h", ":">>), Str(<<"h", ":", "x">>), Str(<<"h", ":", "0">>), Str(<<"h", ":", "-", "7">>),
     Str(<<":", "7">>), Str(<<"a", ":", "b", ":", "7">>),
     Str(<<"[", ":", ":", "1", "]", ":", "7">>), Str(<<"[", "h", "]">>), Str(<<"[", "h">>),
     Str(<<"[", "]">>), Str(<<"[", "]", ":", "7">>), Str(<<"[", "h", "]", ":", "x">>)}

ManualHosts == {Str(<<>>), Str(<<" ">>), Str(<<" ", "m">>), Num(5)}

ManualPorts == {Num(80), Num(0), Num(70000), Str(<<"8", "0">>), Str(<<>>), Str(<<"x">>), JsNull, NumNaN}

\* a field may be missing
Optional(values) == values \cup {Undefined}

\* the object with the fields of the record that are not undefined
ObjectOf(rec) == [f \in {g \in DOMAIN rec : rec[g] # Undefined} |-> rec[f]]

V2Configs ==
    {ObjectOf([bonjour_host |-> b, host |-> h, port |-> p]) :
        b \in Optional(BonjourHosts), h \in Optional(ManualHosts), p \in Optional(ManualPorts)}

ConnectionTypes == {Str(<<>>), Str(<<"physical">>), Str(<<"virtual">>)}
VirtualHosts == {Str(<<" ">>), Str(<<"v">>), Num(5)}
VirtualIds == {Num(0), Num(5), Num(25), Str(<<"5">>), Str(<<"x">>)}
V3Hosts == {Str(<<"m">>), Str(<<" ", "L", "o", "c", "a", "l", "h", "o", "s", "t">>), Str(<<":", ":", "1">>)}
V3Ports == {Num(25003), Num(50503), Num(48603), Num(48503), Num(50453), Str(<<>>), Str(<<"x">>), JsNull}

V3Configs ==
    {ObjectOf([connection_type |-> c, virtual_host |-> vh, virtual_id |-> vi, host |-> h, port |-> p]) :
        c \in Optional(ConnectionTypes), vh \in Optional(VirtualHosts), vi \in Optional(VirtualIds),
        h \in Optional(V3Hosts), p \in Optional(V3Ports)}

InitUpgradeSpec ==
    /\ focus = "upgrade"
    /\ InitUnmuted /\ InitAccel /\ InitKnob /\ InitEq /\ InitGain /\ InitDelay /\ InitFilter /\ InitObs
    /\ outputLinkGroupAssign = {}
    /\ inputLinkGroupAssign = {}
    /\ config \in {Null} \cup {Some(c) : c \in V2Configs \cup V3Configs}

RunUpgradeV2 ==
    /\ focus = "upgrade" /\ last.act = "init"
    /\ RunUpgrade("v2", UpgradeV2(config))
    /\ UNCHANGED focus

RunUpgradeV3 ==
    /\ focus = "upgrade" /\ last.kind # "v3"
    /\ RunUpgrade("v3", UpgradeV3(config))
    /\ UNCHANGED focus

NextUpgrade ==
    \/ RunUpgradeV2
    \/ RunUpgradeV3

SpecUpgrade == InitUpgradeSpec /\ [][NextUpgrade]_vars

MuteOf(d) == IF d = "input" THEN inMute ELSE outMute
SoloOf(d) == IF d = "input" THEN inputSoloState ELSE outputSoloState
ChannelsOf(d) == IF d = "input" THEN Inputs ELSE Outputs

(***************************************************************************)
(* Solo / mute state machine: claims C1 - C3.                              *)
(***************************************************************************)

\* C1: in either domain, a deactivation that ends a solo restores for every channel
\* the mute state it had immediately before the first activation of that solo
\* (preSolo); the snapshot is taken on the first activation only and every later
\* activation keeps it unchanged.
C1_RestoresPreSolo ==
    [][\A d \in Domains :
          /\ (SoloOf(d) # Null /\ SoloOf(d)' = Null) => MuteOf(d)' = preSolo[d]
          /\ (SoloOf(d) = Null /\ SoloOf(d)' # Null) => SoloOf(d)'[1].prevMute = MuteOf(d)
          /\ (SoloOf(d) # Null /\ SoloOf(d)' # Null)
                => SoloOf(d)'[1].prevMute = SoloOf(d)[1].prevMute]_vars

\* two activations with different sets, then a deactivation that brought back an
\* all-muted output domain (a mute map no activation writes)
C1_Witness ==
    /\ last.act = "solo" /\ last.dom = "output" /\ last.kind = "deactivate" /\ last.n = 2
    /\ outputSoloState = Null
    /\ \A ch \in Outputs : outMute[ch]

\* C2: with operation 'toggle', a request whose channel set equals the soloed set
\* deactivates (Unsoloed, snapshot gone, mutes restored); a different set while
\* Soloed, or any set while Unsoloed, ends in Soloed(newSet).
C2_ToggleSemantics ==
    [][\A d \in Domains :
          (last'.act = "solo" /\ last'.dom = d /\ last'.op = "toggle" /\ last'.kind # "skip")
            => IF SoloOf(d) # Null /\ SoloOf(d)[1].soloChannels = last'.set
               THEN SoloOf(d)' = Null /\ MuteOf(d)' = SoloOf(d)[1].prevMute
               ELSE SoloOf(d)' # Null /\ SoloOf(d)'[1].soloChannels = last'.set]_vars

\* a toggle with the soloed two-channel set has just unsoloed the output domain
C2_Witness ==
    /\ last.act = "solo" /\ last.dom = "output" /\ last.op = "toggle"
    /\ last.kind = "deactivate" /\ Cardinality(last.set) = 2
    /\ outputSoloState = Null

\* C3: immediately after a solo activation with set S every channel of S is unmuted,
\* every other channel of the domain is muted, and the solo state is Soloed(S).
C3_ActivationEffect ==
    (last.act = "solo" /\ last.kind = "activate")
      => /\ last.set # {}
         /\ SoloOf(last.dom) # Null
         /\ SoloOf(last.dom)[1].soloChannels = last.set
         /\ \A ch \in ChannelsOf(last.dom) : MuteOf(last.dom)[ch] = (ch \notin last.set)

\* output 2 was muted before the solo and is the only soloed (and unmuted) output
C3_Witness ==
    /\ last.act = "solo" /\ last.dom = "output" /\ last.kind = "activate"
    /\ last.set = {NUM_OUTPUTS}
    /\ preSolo["output"][NUM_OUTPUTS]
    /\ ~outMute[NUM_OUTPUTS] /\ outMute[1]

(***************************************************************************)
(* Rotary acceleration.                                                    *)
(***************************************************************************)
\* this step is a knob rotation (the clock stands still during a callback)
Rotated == now' = now /\ last'.kind = "rotate"

PrevRotation == LastRotation(rotaryAccel, last'.key)
NewRotation == rotaryAccel'[last'.key][1]

GainOf(d) == IF d = "input" THEN inputGain ELSE outputGain
GainToggleOf(d) == IF d = "input" THEN inputGainToggle ELSE outputGainToggle

\* the gain the most recent callback applied to channel ch (set or fade target)
AppliedTo(l, ch) == {l.applied[i][2] : i \in {j \in 1..Len(l.applied) : l.applied[j][1] = ch}}

\* C6: a 'pair' gain action applies gain_a (0 dB) to a selected channel that has
\* no toggle state or whose toggle state is B and records A, and applies gain_b
\* (-6 dB) to one whose toggle state is A and records B: from no toggle state
\* successive pair actions apply 0, -6, 0, ... strictly alternating; nothing else
\* changes a channel's toggle state, so it always records which was applied last.
C6_PairAlternates ==
    [][\A d \in Domains : last'.act = "gain" /\ last'.dom = d =>
         \A ch \in ChannelsOf(d) :
            LET before == GainToggleOf(d)[ch]
                after == GainToggleOf(d)'[ch]
            IN IF last'.kind = "pair" /\ AppliedTo(last', ch) # {}
               THEN /\ before # Some("A") => AppliedTo(last', ch) = {0} /\ after = Some("A")
                    /\ before = Some("A") => AppliedTo(last', ch) = {-60} /\ after = Some("B")
                    /\ IF focus[2] = 0
                       THEN GainOf(d)'[ch] = Some(IF after = Some("A") THEN 0 ELSE -60)
                       ELSE \E j \in gainFade' :
                               /\ j.dom = d /\ j.ch = ch
                               /\ j.target = (IF after = Some("A") THEN 0 ELSE -60)
               ELSE after = before]_vars

\* the third pair action in a row on output 1: 0 dB, -6 dB and 0 dB again
C6_Witness ==
    /\ last.act = "gain" /\ last.dom = "output" /\ last.kind = "pair"
    /\ last.before[1] = Some("B")
    /\ outputGainToggle[1] = Some("A")
    /\ outputGain[1] = Some(0)
    /\ sent # <<>>

(***************************************************************************)
(* Empty channel selections.                                               *)
(***************************************************************************)
\* C7: an action whose channel selection is empty or normalises to empty is
\* skipped entirely: it sends no command and changes no module state (parameter
\* stores, knob selection, toggle, recall, fade or solo state).
C7_EmptySelectionSkips ==
    [][last'.kind = "skip" =>
         /\ sent' = <<>>
         /\ UNCHANGED <<inMute, outMute, inputSoloState, outputSoloState, rotaryAccel,
                        knobVars, eqVars, gainVars, delayVars>>]_vars

\* an empty selection has emptied the EQ knob selection of the outputs
C7_Witness ==
    /\ last.act = "eq_select" /\ last.dom = "output" /\ last.kind = "skip"
    /\ eqKnobControlOutput.selected = Some(<<>>)

(***************************************************************************)
(* Channel Set Validator.                                                  *)
(***************************************************************************)
\* the channel numbers a raw list names: numeric tokens with a value in [1, max]
NamedChannels(raw, max) ==
    {raw[i].v : i \in {j \in 1..Len(raw) : raw[j].k \in {"num", "str"} /\ raw[j].v \in 1..max}}

\* C8: for any raw token list and maximum the validator returns a sequence of
\* unique integers in [1, max], in the order of the raw list, holding exactly the
\* in-range numeric tokens: duplicates, out-of-range and non-numeric tokens are
\* dropped; [2,2,5,99] with max 16 validates to [2,5].
C8_ValidatorOutput ==
    last.act = "validate" /\ last.kind = "done" =>
        /\ \A i \in 1..Len(last.out) : last.out[i] \in 1..last.max
        /\ \A i, j \in 1..Len(last.out) : i # j => last.out[i] # last.out[j]
        /\ Range(last.out) = NamedChannels(last.raw, last.max)
        /\ \A i, j \in 1..Len(last.out) :
              i < j => \E a, b \in 1..Len(last.raw) :
                          a < b /\ last.raw[a].v = last.out[i] /\ last.raw[b].v = last.out[j]
        /\ (last.raw = ExampleSelection.raw /\ last.max = 16 => last.out = <<2, 5>>)

\* [2,2,5,99] with max 16 was validated, to [2,5]
C8_Witness ==
    /\ last.act = "validate" /\ last.kind = "done"
    /\ last.raw = <<NumTok(2), NumTok(2), NumTok(5), NumTok(99)>> /\ last.max = 16
    /\ last.out = <<2, 5>>

(***************************************************************************)
(* Delay requests.                                                         *)
(***************************************************************************)
\* the last component of the path of a command
Param(cmd) == cmd.path[Len(cmd.path)]

\* the most recent callback was a delay request whose unit is 'unchanged'
UnchangedDelay == last'.act = "delay" /\ last'.type = "unchanged"

\* C9 as stated: a delay request whose unit selection is 'unchanged' sends no
\* command and mutates no state, for the input, output and matrix delay actions.
C9_AsStated ==
    [][UnchangedDelay =>
         /\ sent' = <<>>
         /\ UNCHANGED <<delayVars, soloVars, accelVars, knobVars, eqVars, gainVars>>]_vars

\* C9 (amended): a delay request whose unit selection is 'unchanged' sends no
\* delay_type and no delay command and changes no stored delay type or value;
\* the input and output actions send nothing and change nothing at all, while
\* the matrix action still sends and stores the delay bypass of every selected
\* cross point when its delay status option is not 'unchanged'.
C9_UnchangedUnit ==
    [][UnchangedDelay =>
         /\ \A i \in 1..Len(sent') : Param(sent'[i]) \notin {"delay", "delay_type"}
         /\ UNCHANGED <<inputDelay, outputDelay, soloVars, accelVars, knobVars, eqVars, gainVars>>
         /\ \A k \in DOMAIN matrixDelay :
               /\ matrixDelay'[k].type = matrixDelay[k].type
               /\ matrixDelay'[k].samples = matrixDelay[k].samples
         /\ (last'.dom # "matrix" \/ last'.status = "unchanged" \/ last'.kind = "skip") =>
               sent' = <<>> /\ matrixDelay' = matrixDelay
         /\ (last'.dom = "matrix" /\ last'.status # "unchanged" /\ last'.kind # "skip") =>
               /\ sent' # <<>>
               /\ \A i \in 1..Len(sent') :
                     /\ Param(sent'[i]) = "delay_bypass"
                     /\ matrixDelay'[<<sent'[i].path[2], sent'[i].path[3]>>].bypass = Some(sent'[i].val)]_vars

\* a matrix delay request with unit 'unchanged' and status 'on' on a cross point
\* whose delay was set before: only the bypass command was sent, the delay stays
C9_Witness ==
    /\ last.act = "delay" /\ last.dom = "matrix" /\ last.kind = "unchanged" /\ last.status = "on"
    /\ sent = <<Cmd(<<"matrix", 1, 1, "delay_bypass">>, FALSE)>>
    /\ matrixDelay[<<1, 1>>] = [type |-> Some("1"), samples |-> Some(8533), bypass |-> Some(FALSE)]

\* C10 as stated: unit feet, value 100 converts to 88.89 ms and the sample count
\* transmitted is 8534.
C10_AsStated ==
    (last.act = "delay" /\ last.kind = "set" /\ last.type = "1" /\ last.value = Some(10000)) =>
        /\ last.ms = 8889
        /\ \A i \in 1..Len(sent) : Param(sent[i]) = "delay" => sent[i].val = 8534

\* C10 (amended): unit feet, value 100 converts to 88.89 ms after rounding to
\* 0.01 ms and clamping, and the sample count transmitted for every selected
\* channel is round(88.89 * 96) = round(8533.44) = 8533.
C10_FeetToSamples ==
    (last.act = "delay" /\ last.kind = "set" /\ last.type = "1" /\ last.value = Some(10000)) =>
        /\ last.ms = 8889
        /\ \E i \in 1..Len(sent) : Param(sent[i]) = "delay"
        /\ \A i \in 1..Len(sent) : Param(sent[i]) = "delay" => sent[i].val = 8533

\* 100 ft was requested for a matrix cross point: 8533 samples were sent and stored
C10_Witness ==
    /\ last.act = "delay" /\ last.dom = "matrix" /\ last.kind = "set"
    /\ last.type = "1" /\ last.value = Some(10000) /\ last.ms = 8889
    /\ \E i \in 1..Len(sent) : Param(sent[i]) = "delay" /\ sent[i].val = 8533
    /\ matrixDelay[<<1, 1>>].samples = Some(8533)

\* C11: for every unit, the delay in milliseconds computed from a value (clamped
\* and rounded to 0.01 ms) does not decrease when the value grows and lies between
\* 0 and the upper end of the domain's range (500 ms for input and matrix, 2000 ms
\* for output); a value that is not a number converts to 0.
C11_MonotoneBounded ==
    last.act = "convert" =>
        LET hi == (IF last.dom = "output" THEN 2000 ELSE 500) * 100
        IN /\ last.msA \in 0..hi /\ last.msB \in 0..hi
           /\ last.a = Null => last.msA = 0
           /\ (last.a # Null /\ last.b # Null /\ last.a[1] <= last.b[1]) => last.msA <= last.msB

\* 12 ft and 562.5 ft on an input: 10.67 ms and the upper end of the range
C11_Witness ==
    /\ last.act = "convert" /\ last.dom = "input" /\ last.type = "1"
    /\ last.a = Some(1200) /\ last.b = Some(56300)
    /\ last.msA = 1067 /\ last.msB = 50000

\* the gain store of a domain and its keys (channels, or cross points of the matrix)
GainStoreOf(d) == IF d = "matrix" THEN matrixGain ELSE GainOf(d)
GainKeys(d) == IF d = "matrix" THEN MatrixInputs \X Outputs ELSE ChannelsOf(d)

\* the requested fade duration is a number greater than 0
PositiveFade(fadeMs) == fadeMs # Null /\ fadeMs[1] > 0

\* the commands of a sequence that set the gain of one channel
GainCmdsFor(cmds, d, ch) == {i \in DOMAIN cmds : cmds[i].path = <<d, ch, "gain">>}

\* C12: when the fade duration requested from an input, output or matrix gain
\* action is not greater than 0 (zero, negative or not a number), the action
\* creates no fade job and applies the target to each channel by one immediate
\* set: the value is stored, one command is sent for the channel and the channel
\* has no job afterwards; so a fade is started only when the duration is > 0.
C12_ImmediateWhenNoDuration ==
    [][\A d \in GainDomains :
          (last'.act = "gain" /\ last'.dom = d /\ ~PositiveFade(last'.fadeMs)) =>
             /\ gainFade' \subseteq gainFade
             /\ \A ch \in GainKeys(d) :
                   AppliedTo(last', ch) # {} =>
                      /\ JobsOf(gainFade', d, ch) = {}
                      /\ \E g \in AppliedTo(last', ch) : GainStoreOf(d)'[ch] = Some(g)
                      /\ Cardinality(GainCmdsFor(sent', d, ch)) = 1]_vars

\* a matrix set with a negative duration after a tick: 0 dB is stored at once
C12_Witness ==
    /\ last.act = "gain" /\ last.dom = "matrix" /\ last.kind = "set"
    /\ last.fadeMs = Some(-100)
    /\ now > 10 * AccelWindowMs
    /\ matrixGain[<<1, 1>>] = Some(0)
    /\ JobsOf(gainFade, "matrix", <<1, 1>>) = {}
    /\ GainCmdsFor(sent, "matrix", <<1, 1>>) # {}

\* C13: at every moment a channel's gain has at most one fade job; a gain request
\* leaves each channel it applies to with no job (immediate set) or with only the
\* job that request created, the job it superseded being gone from the table in the
\* same step; and a tick writes, for every channel, only the value of the one job
\* the table holds for it (one command) and nothing for a channel without a job,
\* so a superseded job never writes after the request that superseded it.
C13_OneJobPerChannel ==
    /\ [](\A d \in GainDomains : \A ch \in GainKeys(d) : Cardinality(JobsOf(gainFade, d, ch)) <= 1)
    /\ [][\A d \in GainDomains : \A ch \in GainKeys(d) :
            /\ (last'.act = "gain" /\ last'.dom = d /\ AppliedTo(last', ch) # {}) =>
                  \A j \in JobsOf(gainFade', d, ch) :
                     /\ j.startTime = now /\ j.target \in AppliedTo(last', ch)
                     /\ j.start = OrDefault(GainStoreOf(d)[ch], 0)
            /\ last'.act = "tick" =>
                  IF JobsOf(gainFade, d, ch) = {}
                  THEN GainStoreOf(d)'[ch] = GainStoreOf(d)[ch] /\ GainCmdsFor(sent', d, ch) = {}
                  ELSE /\ \E j \in JobsOf(gainFade, d, ch) :
                            /\ GainStoreOf(d)'[ch] = Some(FadeValue(j, now'))
                            /\ \A i \in GainCmdsFor(sent', d, ch) : sent'[i].val = FadeValue(j, now')
                       /\ Cardinality(GainCmdsFor(sent', d, ch)) = 1]_vars

\* a tick after a second fade superseded the first one on output 1 in mid-flight:
\* the value written is the second job's (from -4 dB), not the first job's
C13_Witness ==
    /\ last.act = "tick"
    /\ \E j \in JobsOf(gainFade, "output", 1) :
          /\ j.start = -40 /\ j.startTime = 10 * AccelWindowMs + FadeTickMs
          /\ outputGain[1] = Some(FadeValue(j, now))
    /\ Cardinality(GainCmdsFor(sent, "output", 1)) = 1

\* C14: when a fade is started on a channel whose earlier fade is still running,
\* the new job starts from the value the Parameter Store holds for the channel at
\* that moment, which is the earlier job's interpolated value at that time (not
\* its original start value or its target, unless the interpolation is there).
C14_StartsFromCurrentValue ==
    [][\A d \in GainDomains : \A ch \in GainKeys(d) :
          (last'.act = "gain" /\ last'.dom = d /\ AppliedTo(last', ch) # {}) =>
             \A old \in JobsOf(gainFade, d, ch), new \in JobsOf(gainFade', d, ch) :
                /\ new.start = OrDefault(GainStoreOf(d)[ch], 0)
                /\ new.start = FadeValue(old, now)]_vars

\* the second fade of input 2 was requested one tick into the first (0 dB towards
\* -6 dB): it starts from -4 dB, neither 0 dB nor -6 dB
C14_Witness ==
    /\ last.act = "gain" /\ last.dom = "input" /\ AppliedTo(last, 2) # {}
    /\ now = 10 * AccelWindowMs + FadeTickMs
    /\ inputGain[2] = Some(-40)
    /\ \E j \in JobsOf(gainFade, "input", 2) : j.start = -40 /\ j.target = -60 /\ j.startTime = now

\* C15: starting a fade leaves the stored value of the channel as it was and makes
\* it the job's value at t = 0; the tick at which a job has t >= duration stores
\* and transmits exactly the target and removes the job from the table, while a
\* job with t < duration stays; and, the ticker ticking on, every channel that has
\* a job eventually has none: a job that is not superseded (by a request) or
\* canceled (by a disconnection) is completed by a tick.
C15_FadeCompletes ==
    /\ [][\A d \in GainDomains : \A ch \in GainKeys(d) :
            /\ (last'.act = "gain" /\ last'.dom = d /\ AppliedTo(last', ch) # {}) =>
                  \A j \in JobsOf(gainFade', d, ch) :
                     /\ GainStoreOf(d)'[ch] = GainStoreOf(d)[ch]
                     /\ FadeValue(j, now') = OrDefault(GainStoreOf(d)[ch], 0)
            /\ last'.act = "tick" =>
                  \A j \in JobsOf(gainFade, d, ch) :
                     IF now' - j.startTime >= j.dur
                     THEN /\ GainStoreOf(d)'[ch] = Some(j.target)
                          /\ \E i \in GainCmdsFor(sent', d, ch) : sent'[i].val = j.target
                          /\ JobsOf(gainFade', d, ch) = {}
                          /\ j \in last'.completed
                     ELSE j \in gainFade' /\ j \notin last'.completed
            /\ (last'.act \notin {"tick", "disconnect"}
                /\ ~(last'.act = "gain" /\ last'.dom = d /\ AppliedTo(last', ch) # {})) =>
                  JobsOf(gainFade', d, ch) = JobsOf(gainFade, d, ch)]_vars
    /\ \A d \in GainDomains : \A ch \in GainKeys(d) :
          (JobsOf(gainFade, d, ch) # {}) ~> (JobsOf(gainFade, d, ch) = {})

\* the tick that completes the 300 ms fade of cross point (1, 2) to 0 dB, which
\* started at -6 dB: 0 dB is stored and sent and the job is gone
C15_Witness ==
    /\ last.act = "tick"
    /\ \E j \in last.completed :
          /\ j.dom = "matrix" /\ j.ch = <<1, 2>> /\ j.start = -60 /\ j.target = 0 /\ j.dur = 300
    /\ matrixGain[<<1, 2>>] = Some(0)
    /\ \E i \in GainCmdsFor(sent, "matrix", <<1, 2>>) : sent[i].val = 0
    /\ JobsOf(gainFade, "matrix", <<1, 2>>) = {}

\* C16: a disconnection report empties the job table, transmits nothing and leaves
\* every stored gain as it is; afterwards a job appears on a channel only through
\* a new gain request for that channel, so neither a tick nor a reconnection
\* resumes a canceled job, and a tick or a reconnection neither writes nor sends
\* anything for a channel that has no job.
C16_DisconnectCancels ==
    [][/\ last'.act = "disconnect" =>
             /\ gainFade' = {} /\ last'.canceled = gainFade
             /\ sent' = <<>>
             /\ UNCHANGED <<outputGain, inputGain, matrixGain>>
       /\ \A d \in GainDomains : \A ch \in GainKeys(d) :
             /\ ~(last'.act = "gain" /\ last'.dom = d /\ AppliedTo(last', ch) # {}) =>
                   JobsOf(gainFade', d, ch) \subseteq JobsOf(gainFade, d, ch)
             /\ (last'.act \in {"tick", "connect"} /\ JobsOf(gainFade, d, ch) = {}) =>
                   /\ GainStoreOf(d)'[ch] = GainStoreOf(d)[ch]
                   /\ GainCmdsFor(sent', d, ch) = {}]_vars

\* the fade of output 1 towards -6 dB was canceled at -4 dB: after the
\* reconnection, at the tick that would have completed it, output 1 is still at
\* -4 dB, has no job and nothing was sent for it
C16_Witness ==
    /\ last.act = "tick" /\ connected
    /\ now = 10 * AccelWindowMs + 2 * FadeTickMs
    /\ outputGain[1] = Some(-40)
    /\ JobsOf(gainFade, "output", 1) = {}
    /\ GainCmdsFor(sent, "output", 1) = {}

\* the capture window of a key is not armed or has ended
OutsideWindow(d, ch) == prevCapture[d][ch] = Null \/ now > prevCapture[d][ch][1]

C18_RecallNoValueIsNoOp ==
    [][\A d \in Domains :
          (last'.act = "gain" /\ last'.dom = d /\ last'.kind = "last") =>
             \A ch \in Range(last'.chs) :
                IF gainPrev[d][ch] = Null
                THEN /\ GainOf(d)'[ch] = GainOf(d)[ch]
                     /\ JobsOf(gainFade', d, ch) = JobsOf(gainFade, d, ch)
                     /\ GainToggleOf(d)'[ch] = GainToggleOf(d)[ch]
                     /\ gainPrev'[d][ch] = Null /\ prevCapture'[d][ch] = prevCapture[d][ch]
                     /\ GainCmdsFor(sent', d, ch) = {}
                     /\ AppliedTo(last', ch) = {}
                ELSE /\ AppliedTo(last', ch) = {gainPrev[d][ch][1]}
                     /\ IF PositiveFade(last'.fadeMs)
                        THEN \E j \in JobsOf(gainFade', d, ch) : j.target = gainPrev[d][ch][1]
                        ELSE /\ GainOf(d)'[ch] = gainPrev[d][ch]
                             /\ Cardinality(GainCmdsFor(sent', d, ch)) = 1]_vars

\* a recall of inputs 1 and 2 where only input 2 has a recorded value: input 2 is
\* set to it and input 1 is untouched
C18_Witness ==
    /\ last.act = "gain" /\ last.dom = "input" /\ last.kind = "last"
    /\ last.chs = <<1, 2>>
    /\ gainPrev.input[1] = Null /\ AppliedTo(last, 1) = {} /\ GainCmdsFor(sent, "input", 1) = {}
    /\ gainPrev.input[2] # Null /\ AppliedTo(last, 2) = {gainPrev.input[2][1]}
    /\ inputGain[2] = gainPrev.input[2]
    /\ GainCmdsFor(sent, "input", 2) # {}

(***************************************************************************)
(* Parameter bounds: claim C19.                                            *)
(***************************************************************************)
\* every stored value of the field in the store lies in [lo, hi]
FieldWithin(store, field, lo, hi) ==
    \A k \in DOMAIN store : k[3] = field /\ store[k] # Null => store[k][1] \in lo..hi

\* C19: after any sequence of actions with numeric inputs every stored value lies
\* within its bounds: U-Shaping and parametric EQ gain in [-18, 18] dB, parametric
\* EQ bandwidth in [0.1, 2], all-pass Q in [0.5, 12], and U-Shaping, EQ and
\* all-pass frequency in [10, 20000] Hz.
C19_StoredWithinBounds ==
    /\ \A store \in {outputUShaping, inputUShaping, outputEQ, inputEQ} :
          FieldWithin(store, "gain", -180, 180)
    /\ \A store \in {outputEQ, inputEQ} : FieldWithin(store, "bandwidth", 10, 200)
    /\ FieldWithin(outputAllpass, "q", 50, 1200)
    /\ \A store \in {outputUShaping, inputUShaping, outputEQ, inputEQ, outputAllpass} :
          FieldWithin(store, "frequency", 1000, 2000000)

\* an all-pass Q that was nudged by more than the range is wide sits at a bound of
\* the range, with the other band's Q at the opposite bound
C19_Witness ==
    /\ last.act = "allpass_q" /\ last.kind = "nudge"
    /\ \E ch \in Outputs :
          /\ outputAllpass[<<ch, 1, "q">>] = Some(AllpassQMin)
          /\ outputAllpass[<<ch, NumAllpassBands, "q">>] = Some(AllpassQMax)

\* the Parameter Stores of the filters, and the entry of a command path
\* /processing/<dom>/<ch>/<sub>/<band>/<field> in them
ParamStores ==
    [allpass |-> [output |-> outputAllpass],
     eq |-> [output |-> outputEQ, input |-> inputEQ],
     ushaping |-> [output |-> outputUShaping, input |-> inputUShaping]]

ParamEntry(stores, path) == stores[path[3]][path[1]][<<path[2], path[4], path[5]>>]

\* C20: every parameter change is applied optimistically and at most once: in the
\* step of a callback every store entry that changes has exactly one command for
\* its path among the commands the step transmits, every transmitted command
\* finds its value in the store entry of its path, and no path is transmitted
\* twice.
C20_OptimisticOnce ==
    [][now' = now =>
          LET cmds == sent'
              stores == ParamStores'
          IN /\ \A sub \in DOMAIN stores : \A dom \in DOMAIN stores[sub] :
                   stores[sub][dom] # ParamStores[sub][dom] =>
                      \A k \in DOMAIN stores[sub][dom] :
                         stores[sub][dom][k] # ParamStores[sub][dom][k] =>
                            Cardinality({i \in DOMAIN cmds :
                                            cmds[i].path = <<dom, k[1], sub, k[2], k[3]>>}) = 1
             /\ \A i \in DOMAIN cmds :
                   /\ ParamEntry(stores, cmds[i].path) = Some(cmds[i].val)
                   /\ \A j \in DOMAIN cmds : cmds[j].path = cmds[i].path => j = i]_vars

\* the Chingonizer has just written ten parameters of every input: ten commands
\* per input were transmitted, each carrying the value its store entry holds
C20_Witness ==
    /\ last.act = "chingonizer" /\ last.kind = "set"
    /\ Len(sent) = 10 * NUM_INPUTS
    /\ \A ch \in Inputs :
          Cardinality({i \in DOMAIN sent :
                          /\ sent[i].path[1] = "input" /\ sent[i].path[2] = ch
                          /\ ParamEntry(ParamStores, sent[i].path) = Some(sent[i].val)}) = 10

(***************************************************************************)
(* Array Curve Distributor: claims C21 - C22.                              *)
(***************************************************************************)
HfGain(ch) == outputUShaping[<<ch, UShapingHfBand, "gain">>][1]

\* C21: with total = 8 and a span of 8 dB the value at position 1 is +8/3 rounded
\* to 2.7 dB, the value at position 8 is -16/3 rounded to -5.3 dB, and the values
\* are monotonically non-increasing across positions 1..8.
C21_CurveOfEight ==
    (last.act = "hf_attenuation" /\ last.kind = "applied" /\ last.total = 8 /\ last.swing = 80)
       => /\ HfGain(last.start) = 27
          /\ HfGain(last.start + 7) = -53
          /\ \A i \in 0..6 : HfGain(last.start + i) >= HfGain(last.start + i + 1)

\* the curve of eight loudspeakers at 8 dB has just been written, and it falls
\* strictly somewhere in each half
C21_Witness ==
    /\ last.act = "hf_attenuation" /\ last.kind = "applied" /\ last.total = 8 /\ last.swing = 80
    /\ HfGain(last.start) > HfGain(last.start + 1)
    /\ HfGain(last.start + 6) > HfGain(last.start + 7)
    /\ Len(sent) = 24

\* ceil(total / 2)
HalfOf(total) == (total + 1) \div 2

\* C22: a call whose channel count gives half = ceil(total/2) <= 1 is refused
\* before any effect: nothing is transmitted and no Parameter Store entry is
\* created or changed.
C22_DegenerateRefused ==
    [][(last'.act = "hf_attenuation" /\ last'.n # last.n /\ HalfOf(last'.total) <= 1)
          => /\ last'.kind = "refused"
             /\ sent' = <<>>
             /\ eqVars' = eqVars]_vars

\* a curve was written, then a call for two loudspeakers was refused and left it
\* in place
C22_Witness ==
    /\ last.act = "hf_attenuation" /\ last.kind = "refused" /\ last.total = 2 /\ last.n = 2
    /\ sent = <<>>
    /\ \E ch \in DOMAIN outputUShaping : outputUShaping[ch] # Null

(***************************************************************************)
(* Tier tables, rotation direction and the HF band: claims C23 - C26       *)
(***************************************************************************)
\* the tier tables the specification gives: gain in tenths of a dB, Q / bandwidth
\* in hundredths, slope in steps
StatedGainTiers == <<1, 5, 10, 20>>
StatedBandwidthTiers == <<1, 5, 10, 20>>
StatedSlopeTiers == <<1, 2, 3, 4>>

\* the accelerated controls of gain, Q / bandwidth and slope, by the name of their key
AcceleratedGainKnobs == {"ushaping_gain", "eq_gain"}
AcceleratedSlopeKnobs == {"ushaping_slope", "chingonizer_slope"}
AcceleratedKnobs == AcceleratedGainKnobs \cup {"eq_bw"} \cup AcceleratedSlopeKnobs

\* the store a knob callback writes
KnobStore(stores, dom, act) ==
    IF act \in {"eq_gain", "eq_bw", "eq_freq"} THEN stores.eq[dom] ELSE stores.ushaping[dom]

\* `new` is `old` moved by a step of magnitude mag in one of the two directions,
\* within the range of the control
MovedBy(act, old, new, mag) ==
    IF act \in AcceleratedGainKnobs
    THEN LET lim == IF act = "ushaping_gain" THEN UShapingKnobGainLimit ELSE EqGainLimit
         IN \E s \in {-1, 1} : new = Max(-lim, Min(lim, OrDefault(old, 0) + s * mag))
    ELSE IF act = "eq_bw"
    THEN \E s \in {-1, 1} : new = Max(10, Min(200, OrDefault(old, 100) + s * mag))
    ELSE IF act = "ushaping_slope"
    THEN LET n == Len(slopeValues)
             idx0 == ClosestSlopeIndex(OrDefault(old, 120)) - 1
         IN \E s \in {-1, 1} : new = slopeValues[((idx0 + s * mag + n) % n) + 1]
    ELSE LET cur == Max(ChingonizerSlopeMin, Min(ChingonizerSlopeMax, OrDefault(old, ChingonizerSlopeMin)))
         IN \E s \in {-1, 1} :
               new = Max(ChingonizerSlopeMin, Min(ChingonizerSlopeMax, cur + s * 10 * mag))

StatedTiers ==
    [act \in AcceleratedKnobs |->
        IF act \in AcceleratedGainKnobs THEN StatedGainTiers
        ELSE IF act = "eq_bw" THEN StatedBandwidthTiers
        ELSE StatedSlopeTiers]

\* the tables with the Chingonizer slope knob's own step counts
GentleSlopeTiers == <<1, 1, 2, 3>>
AmendedTiers == [StatedTiers EXCEPT !["chingonizer_slope"] = GentleSlopeTiers]

\* a rotation of one of the accelerated knobs moves every value it writes by the
\* entry of the knob's table at the tier the rotation reached
TierTableApplied(tiers) ==
    (last'.kind = "rotate" /\ rotaryAccel' # rotaryAccel /\ last'.act \in AcceleratedKnobs) =>
        LET act == last'.act
            tier == rotaryAccel'[last'.key][1].count
            old == KnobStore(ParamStores, last'.dom, act)
            new == KnobStore(ParamStores', last'.dom, act)
        IN \A k \in DOMAIN old :
              new[k] # old[k] =>
                 MovedBy(act, IF act = "chingonizer_slope" THEN old[<<k[1], 1, "slope">>] ELSE old[k],
                         new[k][1], tiers[act][tier + 1])

ConfiguredSigns == {-1, 1}
SignedDirection(sgn) == IF sgn = 1 THEN "up" ELSE "down"

\* the step is a rotation of a fine / coarse knob or of the Chingonizer slope knob
\* whose event carries the encoder delta enc, configured with a step of sign sgn
EncoderKnobEvent(enc, sgn) ==
    \/ /\ ParamKnob("output", "ushaping", "gain")
       /\ last'.act = "ushaping_knob_gain"
       /\ \E isCoarse \in BOOLEAN, opt \in KnobGainOpts :
             /\ Sign(KnobBase(isCoarse, opt, 1, 5)) = sgn
             /\ output_ushaping_knob_gain(isCoarse, opt, enc)
    \/ /\ ParamKnob("output", "eq", "gain")
       /\ last'.act = "eq_knob_gain"
       /\ \E isCoarse \in BOOLEAN, opt \in KnobGainOpts :
             /\ Sign(KnobBase(isCoarse, opt, 1, 5)) = sgn
             /\ output_eq_knob_gain(isCoarse, opt, enc)
    \/ /\ ParamFocus("input", "ushaping", "gain") /\ focus[5] = "buttons"
       /\ last'.act = "chingonizer_knob_gain"
       /\ \E raw \in ParamSelections(NUM_INPUTS), isCoarse \in BOOLEAN, opt \in ChingonizerGainOpts :
             /\ Sign(KnobBase(isCoarse, opt, 1, 1)) = sgn
             /\ input_ushaping_chingonizer_knob_gain(raw, isCoarse, opt, enc)
    \/ /\ ParamFocus("input", "ushaping", "frequency") /\ focus[5] = "buttons"
       /\ last'.act = "chingonizer_knob_freq"
       /\ \E raw \in ParamSelections(NUM_INPUTS), isCoarse \in BOOLEAN, opt \in ChingonizerFreqOpts :
             /\ Sign(KnobBase(isCoarse, opt, 1000, 1000)) = sgn
             /\ input_ushaping_chingonizer_knob_frequency(raw, isCoarse, opt, enc)
    \/ /\ ParamKnob("input", "chingonizer", "slope")
       /\ last'.act = "chingonizer_slope"
       /\ input_ushaping_chingonizer_knob_slope(RotarySurface("chingonizer_slope"), SignedDirection(sgn), enc)

\* the step is a rotation of an accelerated gain, bandwidth, frequency or U-Shaping
\* slope knob configured with a step of sign sgn.  These callbacks do not read
\* e.encoder_delta: the step is the same whatever encoder delta the event carries.
AcceleratedKnobEvent(sgn) ==
    /\ last'.kind = "rotate"
    /\ \/ /\ ParamKnob("input", "ushaping", "gain")
          /\ \E d \in GainPressDeltas :
                Sign(d) = sgn /\ input_ushaping_knob_gain(RotarySurface("ushaping_gain"), d)
       \/ /\ ParamKnob("input", "eq", "gain")
          /\ \E d \in GainPressDeltas : Sign(d) = sgn /\ input_eq_knob_gain(RotarySurface("eq_gain"), d)
       \/ /\ ParamKnob("output", "eq", "bandwidth")
          /\ \E d \in BwPressDeltas : Sign(d) = sgn /\ output_eq_knob_bandwidth(RotarySurface("eq_bw"), d)
       \/ /\ ParamKnob("input", "eq", "bandwidth")
          /\ \E d \in BwPressDeltas : Sign(d) = sgn /\ input_eq_knob_bandwidth(RotarySurface("eq_bw"), d)
       \/ /\ ParamKnob("output", "eq", "frequency")
          /\ \E d \in FreqPressDeltas : Sign(d) = sgn /\ output_eq_knob_frequency(RotarySurface("eq_freq"), d)
       \/ /\ ParamKnob("input", "eq", "frequency")
          /\ \E d \in FreqPressDeltas : Sign(d) = sgn /\ input_eq_knob_frequency(RotarySurface("eq_freq"), d)
       \/ /\ ParamKnob("output", "ushaping", "frequency")
          /\ \E d \in FreqPressDeltas :
                Sign(d) = sgn /\ output_ushaping_knob_frequency(RotarySurface("ushaping_freq"), d)
       \/ /\ ParamKnob("input", "ushaping", "frequency")
          /\ \E d \in FreqPressDeltas :
                Sign(d) = sgn /\ input_ushaping_knob_frequency(RotarySurface("ushaping_freq"), d)
       \/ /\ ParamKnob("output", "ushaping", "slope")
          /\ output_ushaping_knob_slope(RotarySurface("ushaping_slope"), SignedDirection(sgn))
       \/ /\ ParamKnob("input", "ushaping", "slope")
          /\ input_ushaping_knob_slope(RotarySurface("ushaping_slope"), SignedDirection(sgn))

\* position of a slope in the list the U-Shaping slope knobs step through
SlopeIndex(v) == CHOOSE i \in 1..Len(slopeValues) : slopeValues[i] = v

\* the end of the Chingonizer's range in the direction s: a value another action
\* stored beyond the range is brought to it whatever the direction
ChingonizerRangeEnd(act, new, s) ==
    \/ act = "chingonizer_knob_freq" /\ new = (IF s = 1 THEN ChingonizerFreqMax ELSE ChingonizerFreqMin)
    \/ act = "chingonizer_knob_gain" /\ new = s * EqGainLimit
    \/ act = "chingonizer_slope" /\ new = (IF s = 1 THEN ChingonizerSlopeMax ELSE ChingonizerSlopeMin)

\* a stored value moved in the direction s: up or down (or to the end of the range
\* in that direction), and for the U-Shaping slope knobs, which wrap around their
\* list, by one to four places in the direction s
MovedToward(act, field, old, new, s) ==
    IF act = "ushaping_slope" /\ old \in Range(slopeValues)
    THEN \E m \in 1..4 :
            SlopeIndex(new) - 1 = (SlopeIndex(old) - 1 + s * m + Len(slopeValues)) % Len(slopeValues)
    ELSE (new - old) * s > 0 \/ ChingonizerRangeEnd(act, new, s)

\* a knob of the Chingonizer steps band 1 and derives the other bands from it
ReferenceBands(act) ==
    IF act \in {"chingonizer_knob_gain", "chingonizer_knob_freq", "chingonizer_slope"} THEN {1}
    ELSE UShapingBands \cup Bands

\* every value the step changed moved in the direction s
StepToward(s) ==
    \A sub \in {"eq", "ushaping"}, dom \in Domains :
        LET old == ParamStores[sub][dom]
            new == ParamStores'[sub][dom]
        IN \A k \in DOMAIN old :
              (old[k] # Null /\ new[k] # old[k] /\ k[2] \in ReferenceBands(last'.act)) =>
                  MovedToward(last'.act, k[3], old[k][1], new[k][1], s)

\* the sign the specification gives the step
StatedSign(enc, sgn) == IF enc # Null /\ enc # Some(0) THEN Sign(enc[1]) ELSE sgn

\* C24: for every rotary knob action, the sign of the applied delta is the sign of
\* the event's explicit encoder delta when one is present and non-zero, and the
\* configured default sign only when no encoder delta is present
C24_EncoderSign ==
    [][now' = now => \A enc \in EncoderDeltas, sgn \in ConfiguredSigns :
          (EncoderKnobEvent(enc, sgn) \/ AcceleratedKnobEvent(sgn)) => StepToward(StatedSign(enc, sgn))]_vars

\* the same for the knobs that read the encoder delta
EncoderSignWhereRead ==
    [][now' = now => \A enc \in EncoderDeltas, sgn \in ConfiguredSigns :
          EncoderKnobEvent(enc, sgn) => StepToward(StatedSign(enc, sgn))]_vars

\* the accelerated input U-Shaping gain knob, configured with a positive delta,
\* was turned twice and raised the gain of band 1 from 0.1 dB to 0.6 dB
C24_Witness ==
    /\ focus = <<"param", "input", "ushaping", "gain", "rotary">>
    /\ last.act = "ushaping_gain" /\ last.kind = "rotate"
    /\ rotaryAccel[last.key] # Null
    /\ rotaryAccel[last.key][1].count = 1
    /\ inputUShaping[<<1, 1, "gain">>] = Some(6)

\* the steps the description of actions['input_ushaping_knob_gain'] gives:
\* 'Acceleration (3 tiers): 0.1 -> 0.3 -> 0.5 dB', in tenths of a dB
DescribedGainTiers == <<1, 3, 5>>

\* C26: the input U-Shaping gain knob accelerates over three tiers with step
\* magnitudes 0.1, 0.3 and 0.5 dB, as its action description states
C26_DescribedTiers ==
    [][(last'.kind = "rotate" /\ rotaryAccel' # rotaryAccel /\ last'.act = "ushaping_gain"
           /\ last'.dom = "input") =>
          LET tier == rotaryAccel'[last'.key][1].count
          IN /\ tier + 1 \in DOMAIN DescribedGainTiers
             /\ \A k \in DOMAIN inputUShaping :
                   inputUShaping'[k] # inputUShaping[k] =>
                      MovedBy("ushaping_gain", inputUShaping[k], inputUShaping'[k][1],
                              DescribedGainTiers[tier + 1])]_vars

\* four detents of the input U-Shaping gain knob within the window: the knob is at
\* its fourth tier and the gain of band 1 went up by 0.1 + 0.5 + 1.0 + 2.0 dB
C26_Witness ==
    /\ last.act = "ushaping_gain" /\ last.dom = "input" /\ last.kind = "rotate"
    /\ rotaryAccel[last.key] # Null
    /\ rotaryAccel[last.key][1].count = MaxTier
    /\ inputUShaping[<<1, 1, "gain">>] = Some(36)

(***************************************************************************)
(* Filter bypass: claim C25                                                *)
(***************************************************************************)
BypassStore(act, highpass, lowpass) == IF act = "highpass_bypass" THEN highpass ELSE lowpass

\* the flag an operation leaves on a channel whose flag was `was`
BypassAfter(op, was) ==
    IF op = "on" THEN FALSE ELSE IF op = "off" THEN TRUE ELSE ~was

\* C25: for the high-pass and the low-pass bypass control actions, operation 'on'
\* (labelled Enabled) sets the filter's bypass to false on every selected channel,
\* operation 'off' (labelled Bypassed) sets it to true, and 'toggle' inverts the
\* stored bypass
C25_BypassOperations ==
    [][(last'.act \in {"highpass_bypass", "lowpass_bypass"} /\ last'.kind # "skip") =>
          \A ch \in last'.chs :
             BypassStore(last'.act, outputHighpass', outputLowpass')[ch] =
                 Some(BypassAfter(last'.kind,
                                  Bypassed(BypassStore(last'.act, outputHighpass, outputLowpass), ch)))]_vars

\* the same for the low-pass action alone
LowpassBypassOperations ==
    [][(last'.act = "lowpass_bypass" /\ last'.kind # "skip") =>
          \A ch \in last'.chs :
             outputLowpass'[ch] = Some(BypassAfter(last'.kind, Bypassed(outputLowpass, ch)))]_vars

\* the high-pass action with operation 'on' has left both channels bypassed
C25_Witness ==
    /\ last.act = "highpass_bypass" /\ last.kind = "on" /\ last.chs = Outputs
    /\ \A ch \in Outputs : outputHighpass[ch] = Some(TRUE)
    /\ Len(sent) = NUM_OUTPUTS
    /\ \A i \in 1..Len(sent) : sent[i].val = "true"

(***************************************************************************)
(* Recall memory of the gain modes: claim C27                              *)
(***************************************************************************)
ChangingModes == {"value", "pair", "nudge"}

ChannelInRange(chNum, max) == ~chNum.nan /\ chNum.v \in 1..max

\* C28: every command sent by a channel-addressed action names a channel that is
\* an integer in [1, N] of its domain: out-of-range and non-numeric selection
\* tokens never reach Device Link or the local state, including in the link-group
\* assign actions
C28_ChannelsInRange ==
    /\ \A i \in 1..Len(sent) :
          ChannelInRange(sent[i].path[2], IF sent[i].path[1] = "input" THEN NUM_INPUTS ELSE NUM_OUTPUTS)
    /\ \A a \in outputLinkGroupAssign : ChannelInRange(a.ch, NUM_OUTPUTS)
    /\ \A a \in inputLinkGroupAssign : ChannelInRange(a.ch, NUM_INPUTS)

\* the same for the tokens that are numeric
NumericChannelsInRange ==
    /\ \A i \in 1..Len(sent) :
          sent[i].path[2].nan \/
             sent[i].path[2].v \in 1..(IF sent[i].path[1] = "input" THEN NUM_INPUTS ELSE NUM_OUTPUTS)
    /\ \A a \in outputLinkGroupAssign : a.ch.nan \/ a.ch.v \in Outputs
    /\ \A a \in inputLinkGroupAssign : a.ch.nan \/ a.ch.v \in Inputs

\* a selection that holds only a token that is not a number was assigned to link
\* group 1: the command names the channel NaN and the object has an entry NaN
C28_Witness ==
    /\ last.act = "link_group_assign" /\ last.dom = "output" /\ last.raw = <<BadTok>>
    /\ sent = <<Cmd(<<"output", NaN, "link_group", 0, "assign">>, 1)>>
    /\ [ch |-> NaN, group |-> 1] \in outputLinkGroupAssign

(***************************************************************************)
(* The HF band of U-Shaping: claim C29                                     *)
(***************************************************************************)
HfOnlyFields == {"frequency", "slope"}

\* a command that sets the frequency or the slope of a U-Shaping HF band
HfCommand(c) ==
    /\ Len(c.path) = 5
    /\ c.path[3] = "ushaping" /\ c.path[4] = UShapingHfBand /\ c.path[5] \in HfOnlyFields

HfStored(store) ==
    {k \in DOMAIN store : k[2] = UShapingHfBand /\ k[3] \in HfOnlyFields /\ store[k] # Null}

\* C29: band 5 (HF) of U-Shaping only has a gain: whatever bands were selected
\* and whatever U-Shaping actions ran, no command sent sets the frequency or the
\* slope of band 5, and no frequency or slope is stored for band 5.
C29_HfGainOnly ==
    /\ \A i \in 1..Len(sent) : ~HfCommand(sent[i])
    /\ HfStored(outputUShaping) = {}
    /\ HfStored(inputUShaping) = {}

\* what holds of the code: the frequency knobs and the adjust action leave band 5
\* alone, and only a slope knob writes to it
HfFrequencyNever ==
    /\ \A i \in 1..Len(sent) : HfCommand(sent[i]) => sent[i].path[5] = "slope"
    /\ \A k \in HfStored(outputUShaping) \cup HfStored(inputUShaping) : k[3] = "slope"

HfSlopeOnlyByKnob ==
    [][(\E i \in 1..Len(sent') : HfCommand(sent'[i])) => last'.act = "ushaping_slope"]_vars

\* band 5 is selected and a frequency knob or a slope knob was pressed
C29_Witness ==
    /\ last.act \in {"ushaping_slope", "ushaping_freq"}
    /\ SelectedBand(IF last.dom = "output" THEN ushapingKnobControlOutput ELSE ushapingKnobControl)
          = UShapingHfBand

(***************************************************************************)
(* The Chingonizer's mirrored gains: claim C30                             *)
(***************************************************************************)
ChingonizerGainActs == {"chingonizer", "chingonizer_knob_gain"}

\* the most recent callback was a Chingonizer set action or gain knob that acted
ChingonizerGainRan == last.act \in ChingonizerGainActs /\ last.kind # "skip"

\* the values of the gain commands sent for a band of an input
GainCommands(ch, band) ==
    [i \in {j \in 1..Len(sent) : sent[j].path = <<"input", ch, "ushaping", band, "gain">>} |-> sent[i].val]

\* the inputs the most recent callback sent a command for
ChannelsSent == {sent[i].path[2] : i \in 1..Len(sent)}

MirroredGain(ch) ==
    LET g1 == inputUShaping[<<ch, 1, "gain">>]
        g5 == inputUShaping[<<ch, UShapingHfBand, "gain">>]
    IN /\ g1 # Null /\ g5 # Null
       /\ g1[1] \in (-EqGainLimit)..EqGainLimit
       /\ g5[1] \in (-EqGainLimit)..EqGainLimit
       /\ g5[1] = -g1[1]
       /\ Cardinality(DOMAIN GainCommands(ch, 1)) = 1
       /\ Cardinality(DOMAIN GainCommands(ch, UShapingHfBand)) = 1
       /\ \A i \in DOMAIN GainCommands(ch, 1) : GainCommands(ch, 1)[i] = g1[1]
       /\ \A i \in DOMAIN GainCommands(ch, UShapingHfBand) : GainCommands(ch, UShapingHfBand)[i] = g5[1]

\* C30: after a Chingonizer set action or a Chingonizer gain-knob event on a
\* channel, the channel's band 5 gain is the negation of its band 1 gain, both
\* are within [-18, 18] dB, and the one gain command sent for band 1 and the one
\* sent for band 5 carry exactly these two values.
C30_MirroredGains ==
    ChingonizerGainRan => ChannelsSent # {} /\ \A ch \in ChannelsSent : MirroredGain(ch)

\* the gain knob took band 1 of an input to a gain other than 0 dB
C30_Witness ==
    /\ last.act = "chingonizer_knob_gain"
    /\ \E ch \in ChannelsSent :
          /\ inputUShaping[<<ch, 1, "gain">>] \notin {Null, Some(0)}
          /\ MirroredGain(ch)

\* the set action clamped a gain of 20 dB to 18 dB and mirrored it to -18 dB
ChingonizerSetClamped ==
    /\ last.act = "chingonizer" /\ last.kind = "set"
    /\ \E ch \in ChannelsSent :
          /\ inputUShaping[<<ch, 1, "gain">>] = Some(EqGainLimit)
          /\ inputUShaping[<<ch, UShapingHfBand, "gain">>] = Some(-EqGainLimit)

(***************************************************************************)
(* The shape of the array curve: claim C31                                 *)
(***************************************************************************)
\* the curve of an accepted call has just been written
HfApplied == last.act = "hf_attenuation" /\ last.kind = "applied"

\* the value written at a position of the array, in tenths of a dB
HfAt(i) == HfGain(last.start + i - 1)

\* positive in the first half, negative in the second, never rising
HfShape ==
    /\ \A i \in 1..last.total :
          IF i <= HalfOf(last.total) THEN HfAt(i) >= 0 ELSE HfAt(i) <= 0
    /\ \A i \in 1..(last.total - 1) : HfAt(i) >= HfAt(i + 1)

\* the claim as it is stated: the rounded values lie in [-2*span/3, +span/3]
C31_AsStated ==
    HfApplied =>
       /\ \A i \in 1..last.total : -2 * last.swing <= 3 * HfAt(i) /\ 3 * HfAt(i) <= last.swing
       /\ HfShape

\* C31: for every accepted total (ceil(total/2) > 1) and every span in
\* [0.1, 24] dB the values assigned to the outputs start .. start+total-1 lie
\* between -2*span/3 and +span/3, both rounded to one decimal as the values are,
\* are non-negative in the first half and non-positive in the second half,
\* and never rise from one position to the next.
C31_CurveShape ==
    HfApplied =>
       /\ HalfOf(last.total) > 1
       /\ last.swing \in 1..240
       /\ \A i \in 1..last.total :
             /\ MathRound(Frac(-2 * last.swing, 3)) <= HfAt(i)
             /\ HfAt(i) <= MathRound(Frac(last.swing, 3))
       /\ HfShape

\* a curve of an odd number of loudspeakers whose first value was rounded up
\* past span/3
C31_Witness ==
    /\ HfApplied /\ last.total % 2 = 1
    /\ 3 * HfAt(1) > last.swing
    /\ HfAt(last.total) < 0

(***************************************************************************)
(* Solo ON again and Solo OFF without a solo: claims C32 and C35           *)
(***************************************************************************)
\* this step is a Solo ON of domain d with the set that is soloed already
SoloOnAgain(d) ==
    /\ last'.act = "solo" /\ last'.dom = d /\ last'.op = "on" /\ last'.kind = "activate"
    /\ SoloOf(d) # Null /\ SoloOf(d)[1].soloChannels = last'.set

\* the callback before this one was a solo activation of domain d
JustActivated(d) == last.act = "solo" /\ last.dom = d /\ last.kind = "activate"

\* C32: re-applying Solo ON with the set that is soloed already is idempotent:
\* the recorded solo set and the pre-solo snapshot stay as the first application
\* left them, and the mute flags are again those the first application wrote
\* (unchanged when the first application is the step before).
C32_SoloOnIdempotent ==
    [][\A d \in Domains :
          SoloOnAgain(d)
            => /\ SoloOf(d)' = SoloOf(d)
               /\ MuteOf(d)' = SoloTarget(Cardinality(ChannelsOf(d)), last'.set)
               /\ (JustActivated(d) => MuteOf(d)' = MuteOf(d))]_vars

\* Solo ON of a set that was soloed already has run after a mute callback had
\* changed a flag, and the snapshot still differs from the mute flags of the solo
C32_Witness ==
    /\ last.act = "solo" /\ last.op = "on" /\ last.kind = "activate" /\ last.n = 0
    /\ SoloOf(last.dom) # Null
    /\ SoloOf(last.dom)[1].prevMute # MuteOf(last.dom)
    /\ last.was # {ch \in ChannelsOf(last.dom) : ch \notin last.set}

\* this step is a Solo OFF of domain d while nothing is soloed
SoloOffUnsoloed(d) ==
    /\ last'.act = "solo" /\ last'.dom = d /\ last'.op = "off" /\ last'.kind = "off_unsoloed"
    /\ SoloOf(d) = Null

\* the claim as it is stated: the mute flags are left as they were
C35_AsStated ==
    [][\A d \in Domains : SoloOffUnsoloed(d) => MuteOf(d)' = MuteOf(d)]_vars

\* C35: a Solo OFF request issued while the domain is Unsoloed (no snapshot
\* exists) unmutes every channel of the domain, sends one unmute per channel
\* and leaves the domain Unsoloed; the other domain is not touched.
C35_OffUnsoloedUnmutes ==
    [][\A d \in Domains :
          SoloOffUnsoloed(d)
            => /\ \A ch \in ChannelsOf(d) : ~MuteOf(d)'[ch]
               /\ SoloOf(d)' = Null
               /\ sent' = MuteCmds(d, Cardinality(ChannelsOf(d)), [ch \in ChannelsOf(d) |-> FALSE])
               /\ \A e \in Domains \ {d} : MuteOf(e)' = MuteOf(e) /\ SoloOf(e)' = SoloOf(e)]_vars

\* Solo OFF has run with nothing soloed and a muted channel is now unmuted
C35_Witness ==
    /\ last.act = "solo" /\ last.op = "off" /\ last.kind = "off_unsoloed"
    /\ SoloOf(last.dom) = Null
    /\ \E ch \in last.was : ~MuteOf(last.dom)[ch]

(***************************************************************************)
(* One rotation event on several channels: claim C33                       *)
(***************************************************************************)
AcceleratedFrequencyKnobs == {"ushaping_freq", "eq_freq"}

\* the rotation of one of the knobs `acts` advanced the tier of its key once, to
\* the tier the time since the previous event gives, and stepped every selected
\* channel alike: values that were equal before the event are equal after it
OneTierPerEvent(acts) ==
    (last'.kind = "rotate" /\ now' = now /\ last'.act \in acts) =>
        LET old == KnobStore(ParamStores, last'.dom, last'.act)
            new == KnobStore(ParamStores', last'.dom, last'.act)
            written == {k \in DOMAIN old : new[k] # old[k] /\ k[2] \in ReferenceBands(last'.act)}
        IN /\ rotaryAccel'[last'.key] # Null
           /\ rotaryAccel'[last'.key][1].count = SpeedTier(LastRotation(rotaryAccel, last'.key), now)
           /\ \A k1 \in written, k2 \in written :
                 (k1[2] = k2[2] /\ k1[3] = k2[3] /\ old[k1] = old[k2]) => new[k1] = new[k2]

\* C33: a single rotation event on a knob that controls several selected
\* channels advances the acceleration tier of its key at most once, and every
\* selected channel receives the same step magnitude for that event; this holds
\* for the gain, bandwidth, slope and frequency knobs.
C33_OneTierPerEvent ==
    [][OneTierPerEvent(AcceleratedKnobs \cup AcceleratedFrequencyKnobs)]_vars

\* the same for the gain, bandwidth and slope knobs, whose acceleration block
\* comes before the channel loop
OneTierOutsideFrequency == [][OneTierPerEvent(AcceleratedKnobs)]_vars

\* a frequency knob was turned with both channels selected, and the two channels,
\* which no other action had touched, ended on different frequencies
C33_Witness ==
    /\ last.act \in AcceleratedFrequencyKnobs /\ last.kind = "rotate"
    /\ rotaryAccel[last.key] # Null /\ rotaryAccel[last.key][1].count > 0
    /\ LET store == KnobStore(ParamStores, last.dom, last.act)
       IN \E b \in UShapingBands \cup Bands :
             /\ <<1, b, "frequency">> \in DOMAIN store
             /\ store[<<1, b, "frequency">>] # Null /\ store[<<2, b, "frequency">>] # Null
             /\ store[<<1, b, "frequency">>] # store[<<2, b, "frequency">>]

(***************************************************************************)
(* Acceleration state of the two domains: claim C34                        *)
(***************************************************************************)
\* the knobs that exist for the inputs and for the outputs
TwoDomainKnobs == {"ushaping_freq", "ushaping_slope", "eq_freq", "eq_bw"}

\* accelKey of the knob `name` of a domain: the callbacks of both domains build
\* it from the name and the surface alone
DomainAccelKey(dom, name, surf) == AccelKey(name, surf)

\* C34: acceleration state is independent per (surface, logical parameter): a
\* rotation event on an input-domain knob never changes the tier or last-event
\* time used by the corresponding output-domain knob (U-Shaping frequency,
\* U-Shaping slope, EQ frequency, EQ bandwidth) on the same surface, and vice
\* versa.
C34_DomainsIndependent ==
    [][\A d \in Domains, name \in TwoDomainKnobs :
        \A surf \in KnobSurfaces(name) \ {NoSurface} :
          (Rotated /\ last'.dom = d /\ last'.key = DomainAccelKey(d, name, surf))
             => \A e \in Domains \ {d} :
                   rotaryAccel'[DomainAccelKey(e, name, surf)] = rotaryAccel[DomainAccelKey(e, name, surf)]]_vars

\* the input U-Shaping slope knob was turned once, less than 100 ms after the
\* output knob, and moved the slope two places from the default
C34_Witness ==
    /\ last.act = "ushaping_slope" /\ last.dom = "input" /\ last.kind = "rotate"
    /\ last.gap \in 1..99
    /\ rotaryAccel[last.key] = Some([time |-> now, count |-> 1])
    /\ \E k \in DOMAIN outputUShaping : outputUShaping[k] # Null
    /\ inputUShaping[<<1, 1, "slope">>] \in {Some(240), Some(480)}

(***************************************************************************)
(* A pair action on several channels: claim C36                            *)
(***************************************************************************)
\* the most recent callback was a pair action that applied a gain
PairApplied == last.act = "gain" /\ last.kind = "pair" /\ last.applied # <<>>

\* the claim as it is stated: one pair action drives every selected channel to
\* the same target
C36_AsStated ==
    PairApplied => Cardinality({last.applied[i][2] : i \in 1..Len(last.applied)}) = 1

\* C36: a single 'pair' gain action applied to several selected channels
\* drives each of them to the target its own toggle state gives: two selected
\* channels get the same target exactly when their toggle states agreed before
\* the action (both A, or neither), whatever pair actions ran earlier.
C36_PairPerChannel ==
    PairApplied =>
       /\ {last.applied[i][1] : i \in 1..Len(last.applied)} = Range(last.chs)
       /\ \A i \in 1..Len(last.applied), j \in 1..Len(last.applied) :
             (last.applied[i][2] = last.applied[j][2])
                <=> ((last.before[last.applied[i][1]] = Some("A"))
                        = (last.before[last.applied[j][1]] = Some("A")))

\* a pair action on both channels, one of which an earlier pair action had left
\* on A: it drove one channel to 0 dB and the other to -6 dB
C36_Witness ==
    /\ PairApplied /\ Len(last.chs) = 2
    /\ last.before[1] = Some("A") /\ last.before[2] # Some("A")
    /\ {last.applied[i] : i \in 1..Len(last.applied)} = {<<1, -60>>, <<2, 0>>}

(***************************************************************************)
(* The direction of a U-Shaping knob step: claim C37                       *)
(***************************************************************************)
\* no value of the U-Shaping store moved against the direction s
NotAgainst(old, new, s) ==
    \A k \in DOMAIN old :
        (old[k] # Null /\ new[k] # Null) => (new[k][1] - old[k][1]) * s >= 0

\* the step is an event of a U-Shaping gain or frequency knob with a delta of
\* sign s
UShapingKnobEvent(s) ==
    \/ /\ RangeFocus("input") /\ last'.act = "ushaping_gain"
       /\ \E d \in RangeGainDeltas : Sign(d) = s /\ input_ushaping_knob_gain(NoSurface, d)
    \/ /\ RangeFocus("input") /\ last'.act = "ushaping_freq"
       /\ \E d \in FreqPressDeltas : Sign(d) = s /\ input_ushaping_knob_frequency(NoSurface, d)
    \/ /\ RangeFocus("output") /\ last'.act = "ushaping_knob_gain"
       /\ \E isCoarse \in BOOLEAN, opt \in KnobGainOpts, enc \in EncoderDeltas :
             /\ Sign(KnobDelta(isCoarse, opt, enc, 1, 5)) = s
             /\ output_ushaping_knob_gain(isCoarse, opt, enc)

\* C37: for every U-Shaping gain or frequency knob event, the stored value
\* moves in the direction of the delta or stays put: a positive delta never
\* decreases the stored value and a negative delta never increases it, whatever
\* value earlier actions (set, Chingonizer, HF attenuation) stored for the band.
C37_KnobDirection ==
    [][\A s \in ConfiguredSigns :
          UShapingKnobEvent(s) => /\ NotAgainst(inputUShaping, inputUShaping', s)
                                  /\ NotAgainst(outputUShaping, outputUShaping', s)]_vars

\* the same for a value within the range of the knob: +-15 dB, and the frequency
\* range of the band
WithinKnobRange(store, dom) ==
    \A k \in DOMAIN store :
        store[k] # Null =>
           /\ k[3] = "gain" => store[k][1] \in (-UShapingKnobGainLimit)..UShapingKnobGainLimit
           /\ k[3] = "frequency" =>
                 store[k][1] \in UShapingFreqRange(k[2]).min..UShapingFreqRange(k[2]).max

DirectionWithinRange ==
    [][\A s \in ConfiguredSigns :
          (UShapingKnobEvent(s) /\ WithinKnobRange(inputUShaping, "input")
              /\ WithinKnobRange(outputUShaping, "output"))
            => /\ NotAgainst(inputUShaping, inputUShaping', s)
               /\ NotAgainst(outputUShaping, outputUShaping', s)]_vars

\* a knob has just brought a gain to the end of its own range, +15 or -15 dB,
\* while the band's mirrored or neighbouring value shows what was stored before
C37_Witness ==
    \/ /\ last.act = "ushaping_gain" /\ last.dom = "input"
       /\ inputUShaping[<<1, 1, "gain">>] = Some(UShapingKnobGainLimit)
       /\ inputUShaping[<<1, UShapingHfBand, "gain">>] = Some(-EqGainLimit)
    \/ /\ last.act = "ushaping_knob_gain" /\ last.dom = "output"
       /\ outputUShaping[<<4, UShapingHfBand, "gain">>] = Some(-UShapingKnobGainLimit)
       /\ outputUShaping[<<1, UShapingHfBand, "gain">>] = Some(80)

(***************************************************************************)
(* The press-state map of the coarse-mode buttons: claim C38               *)
(***************************************************************************)
\* the keys the events of the model can build
RotaryKeys == {buildRotaryKey(ev)[1] : ev \in {e \in RotaryEvents : buildRotaryKey(e) # Null}}

\* the map holds no false entry, and it holds an entry for a key exactly when a
\* knob of that key reads coarse mode as on
EntryIffCoarse ==
    /\ \A k \in DOMAIN rotaryPressState : rotaryPressState[k]
    /\ \A ev \in RotaryEvents :
          buildRotaryKey(ev) # Null =>
             (IsCoarse(rotaryPressState, ev) <=> buildRotaryKey(ev)[1] \in DOMAIN rotaryPressState)

\* the entries of the other keys are as they were
OtherEntriesKept(key) ==
    \A j \in (DOMAIN rotaryPressState \cup DOMAIN rotaryPressState') \ {key} :
        /\ j \in DOMAIN rotaryPressState /\ j \in DOMAIN rotaryPressState'
        /\ rotaryPressState'[j] = rotaryPressState[j]

CoarseModeStep ==
    last'.kind = "coarse_mode" =>
       IF last'.key = Null
       THEN rotaryPressState' = rotaryPressState
       ELSE LET key == last'.key[1]
            IN /\ OtherEntriesKept(key)
               /\ last'.op = "press" => key \in DOMAIN rotaryPressState'
               /\ last'.op = "release" => key \notin DOMAIN rotaryPressState'
               /\ last'.op = "toggle" =>
                     /\ key \in DOMAIN rotaryPressState' <=> key \notin DOMAIN rotaryPressState
                     /\ CoarseToggled(rotaryPressState', key) = rotaryPressState

\* C38: after any sequence of coarse-mode actions, the rotary press-state map
\* holds an entry for a control key exactly when coarse mode is on for that key
\* and never holds a false entry: 'press' sets it, 'release' removes it,
\* 'toggle' inverts it (so two toggles restore the prior state), and an event
\* without a control identity changes nothing.
C38_PressStateMap == []EntryIffCoarse /\ [][CoarseModeStep]_vars

\* a toggle has just switched coarse mode off for one key while it is on for
\* another, and the knob has taken a coarse step of 10 dB before
C38_Witness ==
    /\ last.kind = "coarse_mode" /\ last.op = "toggle" /\ last.key # Null
    /\ last.key[1] \notin DOMAIN rotaryPressState
    /\ rotaryPressState # NoPress
    /\ outputUShaping[<<1, 1, "gain">>] = Some(100)

(***************************************************************************)
(* Upgrade script V2: claim C39                                            *)
(***************************************************************************)
\* the most recent step ran the upgrade script on a stored config
Upgraded(script) == last.act = "upgrade" /\ last.kind = script /\ last.before # Null

\* the host and the port that the trimmed bonjour_host of the config names
BonjourOf(cfg) == ParseBonjourHost(Trim(cfg["bonjour_host"].s))

NonBlankString(v) == v.t = "string" /\ Trim(v.s) # <<>>

\* a host can be determined: a manual one, or one that bonjour_host names
HostDetermined(cfg) ==
    \/ NonBlankString(Field(cfg, "host"))
    \/ BonjourOf(cfg).host # Null /\ BonjourOf(cfg).host # Some(<<>>)

InPortRange(p) == ~p.nan /\ p.v >= 1 /\ p.v <= 65535

\* the manual port, else the parsed port, else 25003
StatedPort(cfg) ==
    LET manual == JsNumber(Field(cfg, "port"))
        parsed == BonjourOf(cfg).port
    IN IF InPortRange(manual) THEN manual.v
       ELSE IF parsed # Null /\ InPortRange(parsed[1]) THEN parsed[1].v
       ELSE 25003

\* C39: upgrade script V2 always removes bonjour_host from a config that
\* contains it, and when bonjour_host is non-empty and a host can be determined
\* the resulting host is the manual host if it is a non-blank string and
\* otherwise the host parsed from bonjour_host, and the resulting port is the
\* manual port if it lies in [1, 65535], otherwise the parsed port if it lies in
\* [1, 65535], otherwise 25003.
C39_BonjourMigrated ==
    (Upgraded("v2") /\ "bonjour_host" \in DOMAIN last.before[1]) =>
       LET cfg == last.before[1]
       IN /\ last.updated # Null
          /\ "bonjour_host" \notin DOMAIN last.updated[1]
          /\ config = last.updated
          /\ (Truthy(cfg["bonjour_host"]) /\ HostDetermined(cfg)) =>
                /\ Field(config[1], "host") =
                      (IF NonBlankString(Field(cfg, "host")) THEN cfg["host"]
                       ELSE Str(BonjourOf(cfg).host[1]))
                /\ Field(config[1], "port") = Num(StatedPort(cfg))

\* a bracketed IPv6 host with port 7 was migrated over a manual port that is out
\* of range: the config now names the host ::1 and the port 7
C39_Witness ==
    /\ Upgraded("v2")
    /\ Field(last.before[1], "bonjour_host") = Str(<<"[", ":", ":", "1", "]", ":", "7">>)
    /\ Field(last.before[1], "port") = Num(70000)
    /\ "host" \notin DOMAIN last.before[1]
    /\ config = Some([host |-> Str(<<":", ":", "1">>), port |-> Num(7)])

(***************************************************************************)
(* Upgrade script V3: claim C40                                            *)
(***************************************************************************)
\* the port is a number, or a string that denotes one
FinitePort(v) ==
    \/ v.t = "number"
    \/ v.t = "string" /\ Trim(v.s) # <<>> /\ ~StringToNumber(v.s).nan

VirtualComplete(cfg) ==
    Field(cfg, "connection_type") = Str(<<"virtual">>) =>
       /\ NonBlankString(Field(cfg, "virtual_host"))
       /\ Field(cfg, "virtual_id").t = "number"
       /\ Field(cfg, "virtual_id").n \in VIRTUAL_MIN_ID..VIRTUAL_MAX_ID

\* C40: after upgrade script V3, every resulting config has a connection_type
\* and a finite port, and whenever its connection_type is 'virtual' its
\* virtual_host is a non-blank string and its virtual_id lies in [1, 20]; when
\* V3 reports no change the input config already satisfied these conditions.
C40_ConfigComplete ==
    (last.act = "upgrade" /\ last.kind = "v3") =>
       /\ config # Null
       /\ "connection_type" \in DOMAIN config[1]
       /\ "port" \in DOMAIN config[1] /\ FinitePort(config[1]["port"])
       /\ VirtualComplete(config[1])
       /\ last.updated = Null => config = last.before

\* the same with the port read as the script reads it: Number(port) is finite,
\* which null and a blank string are (0)
CompleteUpToConversion ==
    (last.act = "upgrade" /\ last.kind = "v3") =>
       /\ config # Null
       /\ Truthy(Field(config[1], "connection_type"))
       /\ "port" \in DOMAIN config[1] /\ ~JsNumber(config[1]["port"]).nan
       /\ VirtualComplete(config[1])
       /\ last.updated = Null => config = last.before
       /\ last.updated # Null => config = last.updated

\* V3 has made a config with a null port a physical one and has left the port
\* null
C40_Witness ==
    /\ last.act = "upgrade" /\ last.kind = "v3" /\ last.before = Some([port |-> JsNull])
    /\ config = Some([connection_type |-> Str(<<"physical">>), port |-> JsNull])

============================================================================
